---- MODULE Spec2Model ----
(***************************************************************************)
(* Sider: the transaction engine (sider/transaction.py, sider/session.py)  *)
(* and the container views that run inside it (sider/list.py,              *)
(* sider/hash.py, sider/sortedset.py).                                     *)
(*                                                                         *)
(* One Session ("the session") is driven by one thread of control.  A      *)
(* second session ("the other session") shares the store and writes to it  *)
(* directly at any moment.  Every method of the library is an operator     *)
(* from a world record (the fields the method can touch) to a world        *)
(* record; an action is one call made by the application.                  *)
(*                                                                         *)
(* The store backend and its client library are external.  They are        *)
(* modelled by the contract of the optimistic-transaction primitive:       *)
(* commands sent through a pipeline are executed at once while the         *)
(* pipeline is watching and MULTI has not been called, and are buffered     *)
(* otherwise; execute() applies the buffer unless a watched key was        *)
(* modified, by any connection, since it was watched.                      *)
(*                                                                         *)
(* Generators are finalised as CPython does it: when the body of a         *)
(* for-loop over a Transaction raises, the generator is closed before any  *)
(* handler of the enclosing frame runs, which exits the with-block in      *)
(* Transaction.__iter__.                                                   *)
(*                                                                         *)
(* Eight specifications share the state: Spec (any block over the list      *)
(* and the hash), SpecZ (any block over the hash and the sorted set, and   *)
(* the compound methods), SpecFail (blocks over the list and the hash      *)
(* with a backend whose connection may fail, and the emulated list pop),   *)
(* SpecThreads (a second thread of control, B, uses the session while      *)
(* thread A runs its block), SpecSave (Session.set on every container type *)
(* and on an entity, and the sorted set used as a set, with no transaction *)
(* active),                                                                *)
(* SpecTuple (the Tuple codec), SpecIter (the block of                     *)
(* test_transaction_iterate) and SpecIterLive (SpecIter with a thread of   *)
(* control that never stops for good).                                     *)
(***************************************************************************)
EXTENDS Integers, Sequences, FiniteSets, TLC

----------------------------------------------------------------------------
(* Bounds *)

MaxLen == 4
MaxQueue == 1
MaxTrial == 2
MaxScore == 2
MaxDepth == 2
MaxFields == 2
MaxBytes == 2
\* the longest list that is iterated
MaxItems == 101
----------------------------------------------------------------------------
(* Values *)

None == "None"
NoError == "none"
BoundHit == "bound"

\* the keys of the store: a list, a hash, a sorted set and a set.  The hash
\* has one field; the sorted set has the members x and y, whose scores the
\* store record holds as Z and Y

\* the key sets the application passes to a transaction
KeyChoices == {{}, {"L"}}

\* the score under which the store holds the member of the sorted set when
\* the set does not hold it: the operations of the model keep the scores of
\* members above it
Absent == 0

\* List.__iter__: step = 100
step == 100

\* str.upper() on the one-character strings of the model
Upper(v) == IF v = "a" THEN "A" ELSE v

Cmd(op, key, n, v) == [op |-> op, key |-> key, n |-> n, v |-> v]

IsWrite(cmd) ==
    cmd.op \in {"RPUSH", "RPUSHV", "LSET", "LTRIM", "HSET", "ZINCRBY", "ZADD",
                "ZREM", "SADD", "SREM", "SREMV", "SUNIONSTORE", "DEL"}

\* the servers the session may be connected to, by what the library and the
\* server make of their version: "2.2" takes one value per RPUSH
\* (server_version_info < (2, 4, 0)); "2.4" and "2.6" take several; "2.6"
\* discards a MULTI block in which a command was refused when it was queued

\* the field of the store record a sorted-set command works on: the score of
\* member y when the command names y, the score of member x otherwise
Member(cmd) == IF cmd.v = "y" THEN "Y" ELSE "Z"

\* what the store does with one command: the new content, and whether the
\* server answered with an error
ApplyCmd(st, cmd) ==
    CASE cmd.op = "RPUSH" ->
            [store |-> [st EXCEPT !.L = Append(@, cmd.v)], ok |-> TRUE]
      [] cmd.op = "RPUSHV" ->
            IF cmd.v # <<>>
            THEN [store |-> [st EXCEPT !.L = @ \o cmd.v], ok |-> TRUE]
            ELSE [store |-> st, ok |-> FALSE]
      [] cmd.op = "LSET" ->
            IF cmd.n < Len(st.L)
            THEN [store |-> [st EXCEPT !.L[cmd.n + 1] = cmd.v], ok |-> TRUE]
            ELSE [store |-> st, ok |-> FALSE]
      [] cmd.op = "LTRIM" ->
            [store |-> [st EXCEPT !.L = SubSeq(@, 1, cmd.n)], ok |-> TRUE]
      [] cmd.op = "HSET" ->
            [store |-> [st EXCEPT !.H = cmd.v], ok |-> TRUE]
      [] cmd.op = "ZINCRBY" ->
            [store |-> [st EXCEPT ![Member(cmd)] = @ + cmd.n], ok |-> TRUE]
      [] cmd.op = "ZADD" ->
            [store |-> [st EXCEPT ![Member(cmd)] = cmd.n], ok |-> TRUE]
      [] cmd.op = "ZREM" ->
            [store |-> [st EXCEPT ![Member(cmd)] = Absent], ok |-> TRUE]
      [] cmd.op = "SADD" ->
            [store |-> [st EXCEPT ![cmd.key] = @ \cup {cmd.v}], ok |-> TRUE]
      [] cmd.op = "SREM" ->
            [store |-> [st EXCEPT ![cmd.key] = @ \ {cmd.v}], ok |-> TRUE]
      [] cmd.op = "SREMV" ->
            IF cmd.v # {}
            THEN [store |-> [st EXCEPT ![cmd.key] = @ \ cmd.v], ok |-> TRUE]
            ELSE [store |-> st, ok |-> FALSE]
      [] cmd.op = "SUNIONSTORE" ->
            [store |-> [st EXCEPT ![cmd.key] = @ \cup st[cmd.v]], ok |-> TRUE]
      [] cmd.op = "DEL" ->
            [store |-> CASE cmd.key = "L" -> [st EXCEPT !.L = <<>>]
                         [] cmd.key = "H" -> [st EXCEPT !.H = None]
                         [] cmd.key = "S" -> [st EXCEPT !.S = {}]
                         [] OTHER -> [st EXCEPT !.Z = Absent, !.Y = Absent],
             ok |-> TRUE]
      [] OTHER -> [store |-> st, ok |-> TRUE]

RECURSIVE ApplyAll(_, _)
ApplyAll(st, cmds) ==
    IF cmds = <<>> THEN [store |-> st, ok |-> TRUE]
    ELSE LET r == ApplyCmd(st, Head(cmds))
             rest == ApplyAll(r.store, Tail(cmds))
         IN [store |-> rest.store, ok |-> r.ok /\ rest.ok]

RECURSIVE WrittenKeys(_)
WrittenKeys(cmds) ==
    IF cmds = <<>> THEN {}
    ELSE (IF IsWrite(Head(cmds)) THEN {Head(cmds).key} ELSE {})
            \cup WrittenKeys(Tail(cmds))

\* the commands the bounds let the store take
Fits(st) == Len(st.L) <= MaxLen /\ st.Z <= MaxScore /\ st.Y <= MaxScore

\* LocalDict(transaction=None); a key that is not in the dictionary is None
LocalDict_initial == [transaction |-> None, original_client |-> None]

----------------------------------------------------------------------------
VARIABLES
    store,      \* the content of the store, by key
    client,     \* Session.client: "basic" or the pipeline of the attempt
    ctx,        \* Session.context_locals: LocalDict.idents, by thread
    txn,        \* the fields of the Transaction object
    pipe,       \* the pipeline of the attempt, client side
    conn,       \* the connection of the pipeline, server side
    frames,     \* the transaction calls in progress, innermost last
    pc,         \* where the thread of control is
    exc,        \* the exception in flight, or the one the call ended with
    stale,      \* another session modified a watched key in the last attempt
    manip,      \* the block wrote to the hash or the sorted set in that attempt
    runs,       \* block invocations of the call
    conflicts,  \* conflicts of the call
    committed,  \* an attempt of the call committed
    up,         \* local of the scripted block: list[0].upper() as read
    script,     \* where the scripted block is
    applied,    \* writes of the scripted block that reached the store
    zop,        \* the compound operation in progress, if any
    current     \* local of the compound operation: <<the score it read>>

vars == <<store, client, ctx, txn, pipe, conn, frames, pc, exc,
          stale, manip, runs, conflicts, committed, up, script, applied,
          zop, current>>

----------------------------------------------------------------------------
(* The world a method works on *)

\* session.identity_map after Session.__init__, which creates the attributes
\* listed; None stands for an attribute that does not exist
Session_identity_map ==
    IF "identity_map" \in {"client", "basic_client", "context_locals",
                           "verbose_transaction_error"}
    THEN <<>> ELSE None

\* server_info is session._server_info: "dict" once Session.set stored the
\* list (List._raw_extend asked for the version), None for an attribute that
\* does not exist; value is what a property returned
World ==
    [store |-> store, client |-> client, ctx |-> ctx, txn |-> txn,
     pipe |-> pipe, conn |-> conn, issued |-> <<>>, err |-> NoError,
     queued |-> FALSE, fail |-> FALSE, ident |-> "A", room |-> MaxQueue,
     identity_map |-> Session_identity_map, watch_args |-> <<>>,
     server_info |-> "dict", value |-> None]

\* the world of a method called by thread t
OnThread(w, t) == [w EXCEPT !.ident = t]

Raise(w, e) == [w EXCEPT !.err = e]

Issue(w, name) == [w EXCEPT !.issued = Append(@, name)]

NewPipe == [watching |-> FALSE, explicit |-> FALSE, stack |-> <<>>]

NewConn == [watched |-> {}, dirty |-> FALSE]

----------------------------------------------------------------------------
(* The store backend and its client library *)

\* a modification of key k flags every connection that watches k
Touch(w, k) ==
    IF k \in w.conn.watched THEN [w EXCEPT !.conn.dirty = TRUE] ELSE w

RECURSIVE TouchAll(_, _)
TouchAll(w, ks) ==
    IF ks = {} THEN w
    ELSE LET k == CHOOSE x \in ks : TRUE
         IN TouchAll(Touch(w, k), ks \ {k})

\* a command executed at once
execute_immediate(w, cmd) ==
    LET r == ApplyCmd(w.store, cmd)
        w1 == [w EXCEPT !.store = r.store, !.queued = FALSE]
    IN IF ~r.ok THEN Raise(w1, "ResponseError")
       ELSE IF ~Fits(r.store) THEN Raise(w, BoundHit)
       ELSE IF IsWrite(cmd) THEN Touch(w1, cmd.key)
       ELSE w1

\* session.client.<command>(...): executed at once, or buffered in the
\* pipeline
client_command(w, cmd) ==
    LET w1 == Issue(w, IF IsWrite(cmd) THEN "WRITE" ELSE "READ")
    IN IF w.client = "basic" \/ (w.pipe.watching /\ ~w.pipe.explicit)
       THEN execute_immediate(w1, cmd)
       ELSE IF Len(w1.pipe.stack) >= w1.room THEN Raise(w1, BoundHit)
       ELSE [w1 EXCEPT !.pipe.stack = Append(@, cmd), !.queued = TRUE]

\* pipeline.watch(*keys)
pipeline_watch(w, keys) ==
    LET w1 == [Issue(w, "WATCH") EXCEPT !.watch_args = Append(@, keys)]
    IN IF w.pipe.explicit THEN Raise(w1, "RedisError")
       ELSE IF w.fail THEN Raise([w1 EXCEPT !.fail = FALSE], "ConnectionError")
       ELSE [w1 EXCEPT !.pipe.watching = TRUE,
                       !.conn.watched = @ \cup keys]

\* pipeline.multi()
pipeline_multi(w) ==
    LET w1 == Issue(w, "MULTI")
    IN IF w.pipe.explicit \/ w.pipe.stack # <<>>
       THEN Raise(w1, "RedisError")
       ELSE [w1 EXCEPT !.pipe.explicit = TRUE]

\* pipeline.reset()
pipeline_reset(w) ==
    [Issue(w, "RESET") EXCEPT !.pipe = NewPipe, !.conn = NewConn]

\* pipeline.execute(): MULTI, the buffered commands, EXEC
pipeline_execute(w) ==
    LET w1 == [Issue(w, "EXECUTE") EXCEPT !.pipe = NewPipe, !.conn = NewConn]
        r == ApplyAll(w.store, w.pipe.stack)
    IN IF w.conn.dirty THEN Raise(w1, "WatchError")
       ELSE IF ~Fits(r.store) THEN Raise(w, BoundHit)
       ELSE IF ~r.ok THEN Raise([w1 EXCEPT !.store = r.store], "ResponseError")
       ELSE [w1 EXCEPT !.store = r.store]

\* client.pipeline() followed by commands and execute(): a pipeline of its
\* own, on a connection of its own, that watches nothing
fresh_pipeline_execute(w, cmds) ==
    LET r == ApplyAll(w.store, cmds)
        w1 == Issue(Issue(w, "PIPELINE"), "EXECUTE")
    IN IF ~Fits(r.store) THEN Raise(w, BoundHit)
       ELSE IF w.store.version = "2.6" /\ (\E i \in DOMAIN cmds :
                                            cmds[i].op = "RPUSHV" /\ cmds[i].v = <<>>)
       THEN Raise(w1, "ResponseError")
       ELSE IF ~r.ok THEN Raise([w1 EXCEPT !.store = r.store], "ResponseError")
       ELSE TouchAll([w1 EXCEPT !.store = r.store], WrittenKeys(cmds))

----------------------------------------------------------------------------
(* sider/transaction.py: class Transaction *)

\* Transaction.__init__
Transaction_init(keys) ==
    [keys |-> keys, initial_keys |-> keys,
     commit_phase |-> FALSE, entered |-> FALSE]

\* Transaction.watch that sends WATCH and does not record the keys
Transaction_watch_mutant(w, keys, initialize) ==
    LET new == IF initialize THEN keys ELSE keys \ w.txn.keys
        w1 == IF initialize THEN [w EXCEPT !.txn.keys = keys] ELSE w
    IN IF new # {} THEN pipeline_watch(w1, new) ELSE w1

\* Transaction.watch without keys -= self.keys
Transaction_watch_resend(w, keys, initialize) ==
    LET w1 == IF initialize THEN [w EXCEPT !.txn.keys = keys] ELSE w
        w2 == IF keys # {} THEN pipeline_watch(w1, keys) ELSE w1
    IN IF w2.err # NoError \/ initialize THEN w2
       ELSE [w2 EXCEPT !.txn.keys = @ \cup keys]

\* Transaction.watch
Transaction_watch(w, keys, initialize) ==
    LET new == IF initialize THEN keys ELSE keys \ w.txn.keys
        w1 == IF initialize THEN [w EXCEPT !.txn.keys = keys] ELSE w
        w2 == IF new # {} THEN pipeline_watch(w1, new) ELSE w1
    IN IF w2.err # NoError \/ initialize THEN w2
       ELSE [w2 EXCEPT !.txn.keys = @ \cup new]

\* LocalDict.current that gives every thread the dictionary of thread A
LocalDict_current_mutant(w) == w.ctx["A"]

\* LocalDict.current: the dictionary of the calling thread; a thread that has
\* none yet is given a copy of the initial one
LocalDict_current(w) == w.ctx[w.ident]

\* begin_commit() that does not look at commit_phase
Transaction_begin_commit_again(w) ==
    pipeline_multi([w EXCEPT !.txn.commit_phase = TRUE])

\* Transaction.begin_commit
Transaction_begin_commit(w) ==
    IF w.txn.commit_phase THEN Issue(w, "WARN")
    ELSE pipeline_multi([w EXCEPT !.txn.commit_phase = TRUE])

\* Transaction.__enter__ without the test of the transaction slot
Transaction_enter_mutant(w) ==
    LET w1 == [w EXCEPT !.txn.entered = TRUE,
                        !.ctx[w.ident] =
                            [transaction |-> "t", original_client |-> w.client],
                        !.client = "pipe",
                        !.pipe = NewPipe,
                        !.conn = NewConn]
    IN Transaction_watch(w1, w1.txn.initial_keys, TRUE)

\* Transaction.__enter__ that watches the initial keys without
\* initialize=True, so that self.keys is what the last attempt left
Transaction_enter_carry(w) ==
    IF LocalDict_current(w).transaction # None
    THEN Raise(w, "DoubleTransactionError")
    ELSE LET w1 == [w EXCEPT !.txn.entered = TRUE,
                             !.ctx[w.ident] =
                            [transaction |-> "t", original_client |-> w.client],
                             !.client = "pipe",
                             !.pipe = NewPipe,
                             !.conn = NewConn]
             w2 == pipeline_watch(w1, w1.txn.initial_keys)
         IN IF w1.txn.initial_keys = {} THEN w1 ELSE w2

\* Transaction.__enter__
Transaction_enter(w) ==
    IF LocalDict_current(w).transaction # None
    THEN Raise(w, "DoubleTransactionError")
    ELSE LET w1 == [w EXCEPT !.txn.entered = TRUE,
                             !.ctx[w.ident] =
                            [transaction |-> "t", original_client |-> w.client],
                             !.client = "pipe",
                             !.pipe = NewPipe,
                             !.conn = NewConn]
         IN Transaction_watch(w1, w1.txn.initial_keys, TRUE)

\* the finally clause without the restoration of session.client
Transaction_exit_finally_mutant(w) ==
    [w EXCEPT !.txn.commit_phase = FALSE,
              !.txn.entered = FALSE,
              !.ctx[w.ident] = LocalDict_initial]

\* the finally clause of Transaction.__exit__
Transaction_exit_finally(w) ==
    [w EXCEPT !.txn.commit_phase = FALSE,
              !.txn.entered = FALSE,
              !.ctx[w.ident] = LocalDict_initial,
              !.client = LocalDict_current(w).original_client]

\* Transaction.__exit__ without the except WatchError clause
Transaction_exit_mutant(w, e) ==
    IF e = NoError THEN Transaction_exit_finally(pipeline_execute(w))
    ELSE Transaction_exit_finally(pipeline_reset(w))

\* Transaction.__exit__; e is the exception the with-block ended with
Transaction_exit(w, e) ==
    IF e = NoError
    THEN LET w1 == pipeline_execute(w)
         IN IF w1.err = "WatchError"
            THEN Transaction_exit_finally(
                     Raise(pipeline_reset([w1 EXCEPT !.err = NoError]),
                           "ConflictError"))
            ELSE Transaction_exit_finally(w1)
    ELSE Transaction_exit_finally(pipeline_reset(w))

\* the bare except clause of Transaction.__call__
Transaction_call_except(w, e) ==
    IF w.txn.entered THEN Transaction_exit(w, e) ELSE w

----------------------------------------------------------------------------
(* sider/session.py: class Session *)

\* Session.current_transaction
current_transaction(w) == LocalDict_current(w).transaction

\* Session.server_version: the reply of INFO is kept in _server_info; a
\* buffered command returns the pipeline, which has no item
\* 'redis_version'
Session_server_version(w) ==
    IF w.server_info = None
    THEN LET w1 == client_command(w, Cmd("INFO", "", 0, ""))
             info == IF w1.queued THEN "pipeline" ELSE "dict"
             w2 == [w1 EXCEPT !.server_info = info]
         IN IF w1.err # NoError THEN w1
            ELSE IF info = "dict" THEN [w2 EXCEPT !.value = w.store.version]
            ELSE Raise(w2, "TypeError")
    ELSE IF w.server_info = "dict" THEN [w EXCEPT !.value = w.store.version]
    ELSE Raise(w, "TypeError")

\* Session.mark_manipulative
Session_mark_manipulative(w, keys) ==
    IF current_transaction(w) = None THEN w
    ELSE LET w1 == Transaction_watch(w, keys, FALSE)
         IN IF w1.err # NoError THEN w1
            ELSE IF ~w1.txn.commit_phase THEN Transaction_begin_commit(w1)
            ELSE w1

\* Session.mark_query that aborts the pipeline when it refuses a read
Session_mark_query_mutant(w, keys) ==
    IF current_transaction(w) = None THEN w
    ELSE IF w.txn.commit_phase THEN Raise(pipeline_reset(w), "CommitError")
    ELSE Transaction_watch(w, keys, FALSE)

\* Session.mark_query
Session_mark_query(w, keys) ==
    IF current_transaction(w) = None THEN w
    ELSE IF w.txn.commit_phase THEN Raise(w, "CommitError")
    ELSE Transaction_watch(w, keys, FALSE)

\* the decorators query and manipulative of sider/transaction.py
query(w, key) == Session_mark_query(w, {key})

manipulative(w, key) == Session_mark_manipulative(w, {key})

\* what a transaction call does when the session already has a current
\* transaction: Transaction.__enter__ (a with-statement), Session.transaction,
\* Transaction.__iter__ (a for-loop) and Transaction.__call__.  The result
\* has join set when the block is to run inside the current transaction.
OpenWhileActive(w, mode, keys, ignore_double) ==
    LET w0 == [w EXCEPT !.queued = FALSE]
    IN CASE mode = "with" -> Transaction_enter(w0)
         [] mode = "iter" -> Raise(w0, "DoubleTransactionError")
         [] OTHER ->
              IF ~ignore_double THEN Raise(w0, "DoubleTransactionError")
              ELSE Transaction_watch(w0, keys, FALSE)

----------------------------------------------------------------------------
(* The container views *)

\* the read operations of each view
ReadOpsOf(c) ==
    IF c = "L" THEN {"len", "iter", "getitem"}
    ELSE {"len", "iter", "contains", "getitem", "keys", "values", "items", "eq"}

\* the command a read method sends: LLEN, LRANGE, LINDEX; HLEN, HKEYS,
\* HEXISTS, HGET, HVALS, HGETALL; ZCARD, ZSCORE, ZRANGE.  None of them
\* changes the store, and the model keeps only that it is a read of c.
ReadCommand(c, m) == Cmd("READ", c, 0, "")

\* List.__len__, __iter__, __getitem__; Hash and SortedSet __len__, __iter__,
\* __contains__, __getitem__, keys, values, items, __eq__
\* Hash.keys is frozenset(self) and Mapping.__eq__ compares items(); marked
\* is the set of the methods decorated with @query
Container_read(w, c, op) ==
    LET m == IF c = "H" /\ op = "keys" THEN "iter"
             ELSE IF c = "H" /\ op = "eq" THEN "items"
             ELSE op
        marked ==
            CASE c = "H" -> {"len", "iter", "contains", "getitem", "values",
                             "items"}
              [] c = "Z" -> {"len", "iter", "contains", "getitem", "eq",
                             "items", "values"}
              [] OTHER -> {}
        w1 == IF m \in marked THEN query(w, c) ELSE w
    IN IF w1.err # NoError THEN w1
       ELSE client_command(w1, ReadCommand(c, m))

\* List.append
List_append(w, v) == client_command(w, Cmd("RPUSH", "L", 0, v))

\* List.__setitem__ with an integer index
List_setitem(w, i, v) ==
    LET w1 == client_command(w, Cmd("LSET", "L", i, v))
    IN IF w1.err = "ResponseError" THEN Raise(w1, "IndexError") ELSE w1

\* List._raw_extend: the commands it sends to the pipeline it is given
List_raw_extend(w, vs) ==
    IF w.store.version = "2.2"
    THEN [i \in 1..Len(vs) |-> Cmd("RPUSH", "L", 0, vs[i])]
    ELSE <<Cmd("RPUSHV", "L", 0, vs)>>

List_extend(w, vs) == fresh_pipeline_execute(w, List_raw_extend(w, vs))

\* Hash.__setitem__
\* List.pop(index) for an index that is neither 0 nor -1 (i counts from 0):
\* self.session.client.transaction(block, self.key) runs the block on a
\* pipeline of its own (WATCH, LINDEX, LRANGE, MULTI, LTRIM, RPUSH) and
\* executes it before it returns
List_pop(w, i) ==
    LET L == w.store.L
        tail == SubSeq(L, i + 2, Len(L))
    IN IF i >= Len(L) THEN Raise(Issue(w, "PIPELINE"), "IndexError")
       ELSE fresh_pipeline_execute(w,
               <<Cmd("LTRIM", "L", i, "")>> \o List_raw_extend(w, tail))

\* Hash.update(mapping) with one field: HMSET through session.client, on a
\* pipeline of its own only when the session has no transaction
Hash_update(w, v) ==
    LET w1 == manipulative(w, "H")
    IN IF w1.err # NoError THEN w1
       ELSE IF current_transaction(w1) = None
            THEN fresh_pipeline_execute(w1, <<Cmd("HSET", "H", 0, v)>>)
            ELSE client_command(w1, Cmd("HSET", "H", 0, v))

Hash_setitem(w, v) ==
    LET w1 == manipulative(w, "H")
    IN IF w1.err # NoError THEN w1
       ELSE client_command(w1, Cmd("HSET", "H", 0, v))

\* SortedSet.add
\* SortedSet.add(member, score)
SortedSet_add_member(w, m, score) ==
    LET w1 == manipulative(w, "Z")
    IN IF w1.err # NoError THEN w1
       ELSE client_command(w1, Cmd("ZINCRBY", "Z", score, m))

\* Hash.setdefault up to the lookup: self.session.mark_query(); self[key]
Hash_setdefault_read(w) ==
    LET w1 == Session_mark_query(w, {})
    IN IF w1.err # NoError THEN w1
       ELSE Container_read(w1, "H", "getitem")

\* Hash.setdefault after the lookup; loc is <<the value found>>, None for
\* KeyError: self.session.mark_manipulative([self.key]); self[key] = default
Hash_setdefault_write(w, loc, default) ==
    IF loc[1] # None THEN w
    ELSE LET w1 == Session_mark_manipulative(w, {"H"})
         IN IF w1.err # NoError THEN w1
            ELSE Hash_setitem(w1, default)

\* the compound operations of SortedSet on the member
CompoundOps == {"discard", "setdefault", "pop", "popitem"}

\* the first half of the block of a compound operation:
\* self.session.mark_query(); pipe.zscore(self.key, element)
SortedSet_compound_read(w) ==
    LET w1 == Session_mark_query(w, {})
    IN IF w1.err # NoError THEN w1
       ELSE client_command(w1, ReadCommand("Z", "getitem"))

\* what the first half leaves in the local: the score, Absent for None
SortedSet_compound_local(w, w1) ==
    IF w1.err = NoError /\ ~w1.queued THEN <<w.store.Z>> ELSE <<>>

\* the write without self.session.mark_manipulative()
SortedSet_compound_remove_mutant(w, cur) ==
    client_command(w, IF cur - 1 > 0 THEN Cmd("ZINCRBY", "Z", 0 - 1, "")
                      ELSE Cmd("ZREM", "Z", 0, ""))

\* the write of discard, pop and popitem with score=1, remove=0:
\* self.session.mark_manipulative(); pipe.zincrby(...) or pipe.zrem(...)
SortedSet_compound_remove(w, cur) ==
    LET w1 == Session_mark_manipulative(w, {})
    IN IF w1.err # NoError THEN w1
       ELSE client_command(w1, IF cur - 1 > 0
                               THEN Cmd("ZINCRBY", "Z", 0 - 1, "")
                               ELSE Cmd("ZREM", "Z", 0, ""))

\* the second half of the block of SortedSet.discard, setdefault, pop(key)
\* and popitem, with the default arguments; loc is the local
SortedSet_compound_write(w, o, loc) ==
    IF loc = <<>> THEN Raise(w, "TypeError")
    ELSE LET cur == loc[1]
         IN CASE o = "setdefault" ->
                   IF cur # Absent THEN w
                   ELSE LET w1 == Session_mark_manipulative(w, {})
                        IN IF w1.err # NoError THEN w1
                           ELSE client_command(w1, Cmd("ZADD", "Z", 1, ""))
              [] o = "popitem" /\ cur = Absent -> Raise(w, "KeyError")
              [] cur = Absent -> w
              [] OTHER -> SortedSet_compound_remove(w, cur)

\* Hash.__delitem__; a command the pipeline buffered is answered with the
\* pipeline object, which is neither None nor false
Hash_delitem(w) ==
    LET found == w.store.H # None
        hdel == Cmd("DEL", "H", 0, "")
        w1 == Session_mark_query(w, {"H"})
        w2 == client_command(w1, ReadCommand("H", "contains"))
        ok == w2.queued \/ found
        w3 == Session_mark_manipulative(w2, {})
        w4 == client_command(w3, hdel)
    IN IF current_transaction(w) = None
       THEN LET d == client_command(w, hdel)
            IN IF d.err = NoError /\ ~found THEN Raise(d, "KeyError") ELSE d
       ELSE IF w1.err # NoError THEN w1
       ELSE IF w2.err # NoError THEN w2
       ELSE IF ~ok THEN Raise(w2, "KeyError")
       ELSE IF w3.err # NoError THEN w3
       ELSE w4

\* SortedSet.__delitem__
SortedSet_delitem(w) ==
    LET found == w.store.Z # Absent
        zrem == Cmd("ZREM", "Z", 0, "")
        w1 == Session_mark_query(w, {})
        w2 == client_command(w1, ReadCommand("Z", "getitem"))
        exists == w2.queued \/ found
        w3 == Session_mark_manipulative(w2, {})
        w4 == client_command(w3, zrem)
    IN IF current_transaction(w) = None
       THEN LET d == client_command(w, zrem)
            IN IF d.err = NoError /\ ~found THEN Raise(d, "KeyError") ELSE d
       ELSE IF w1.err # NoError THEN w1
       ELSE IF w2.err # NoError THEN w2
       ELSE IF ~exists THEN Raise(w2, "KeyError")
       ELSE IF w3.err # NoError THEN w3
       ELSE w4

\* Hash.setdefault(key, default), whole
Hash_setdefault(w, default) ==
    LET w1 == Hash_setdefault_read(w)
    IN IF w1.err # NoError THEN w1
       ELSE Hash_setdefault_write(
                w1, <<IF w1.queued THEN "pipeline" ELSE w.store.H>>, default)

\* SortedSet.discard, setdefault, pop(key) and popitem called while the
\* session has a current transaction: Session.transaction joins it,
\* transaction.watch(keys); block(0, None)
SortedSet_compound_joined(w, o) ==
    LET w0 == OpenWhileActive(w, "transaction", {"Z"}, TRUE)
        w1 == SortedSet_compound_read(w0)
    IN IF w0.err # NoError THEN w0
       ELSE IF w1.err # NoError THEN w1
       ELSE SortedSet_compound_write(w1, o, SortedSet_compound_local(w0, w1))

----------------------------------------------------------------------------
(* sider/types.py: save_value of the container types (Session.set) *)

RECURSIVE SAddAll(_)
\* the commands that add the members ms to the set
SAddAll(ms) ==
    IF ms = {} THEN <<>>
    ELSE LET m == CHOOSE x \in ms : TRUE
         IN <<Cmd("SADD", "S", 0, m)>> \o SAddAll(ms \ {m})

\* List.save_value
List_save_value(w, vs) ==
    fresh_pipeline_execute(w, <<Cmd("DEL", "L", 0, "")>> \o
                              List_raw_extend(w, vs))

\* Set.save_value
Set_save_value(w, ms) ==
    fresh_pipeline_execute(w, <<Cmd("DEL", "S", 0, "")>> \o SAddAll(ms))

RECURSIVE Set_raw_delete_each(_)
\* the fallback of Set._raw_delete: one SREM for each element
Set_raw_delete_each(elements) ==
    IF elements = {} THEN <<>>
    ELSE LET el == CHOOSE x \in elements : TRUE
         IN <<Cmd("SREM", "S", 0, el)>> \o Set_raw_delete_each(elements \ {el})

\* Set._raw_delete: the commands it sends to the pipeline it is given
Set_raw_delete(w, elements) ==
    IF w.store.version = "2.2" THEN Set_raw_delete_each(elements)
    ELSE <<Cmd("SREMV", "S", 0, elements)>>

\* the block of Set.symmetric_difference_update(operand) for an operand
\* that is a Set of the same session, after inter = pipe.sinter(...):
\* pipe.multi(), pipe.sunionstore(...), self._raw_delete(inter, pipe)
Set_symmetric_difference_block(w, inter) ==
    LET w1 == pipeline_multi(w)
    IN IF w1.err # NoError THEN w1
       ELSE [w1 EXCEPT !.pipe.stack =
                 @ \o <<Cmd("SUNIONSTORE", "S", 0, "T")>>
                   \o Set_raw_delete(w, inter)]

\* Hash.save_value; v is the value of the field, None for an empty mapping
Hash_save_value(w, v) ==
    IF v # None
    THEN fresh_pipeline_execute(w, <<Cmd("DEL", "H", 0, ""),
                                     Cmd("HSET", "H", 0, v)>>)
    ELSE client_command(w, Cmd("DEL", "H", 0, ""))

\* the block of SortedSet.save_value: obj.clear(), then ZADD of the members
\* given with a score (zx for x, zy for y)
SortedSet_save_block(w, zx, zy) ==
    LET m == manipulative(w, "Z")
        w1 == IF m.err # NoError THEN m
              ELSE client_command(m, Cmd("DEL", "Z", 0, ""))
        w2 == IF w1.err # NoError \/ zx = Absent THEN w1
              ELSE client_command(w1, Cmd("ZADD", "Z", zx, "x"))
    IN IF w2.err # NoError \/ zy = Absent THEN w2
       ELSE client_command(w2, Cmd("ZADD", "Z", zy, "y"))

\* SortedSet.save_value: session.transaction(block, [key],
\* ignore_double=True), run without interruption.  With no transaction it
\* runs the block in a Transaction of its own, which buffers up to three
\* commands and commits them before the method returns; with one it joins it
SortedSet_save_value(w, zx, zy) ==
    IF current_transaction(w) = None
    THEN LET w0 == [w EXCEPT !.txn = Transaction_init({"Z"}),
                             !.room = MaxQueue + 2]
             w1 == Transaction_enter(w0)
             w2 == IF w1.err # NoError THEN w1
                   ELSE SortedSet_save_block(w1, zx, zy)
             w3 == IF w1.err # NoError THEN w1
                   ELSE Transaction_exit(w2, w2.err)
         IN [w3 EXCEPT !.txn = w.txn, !.room = w.room]
    ELSE LET w1 == Transaction_watch(w, {"Z"}, FALSE)
         IN IF w1.err # NoError THEN w1
            ELSE SortedSet_save_block(w1, zx, zy)

\* the score the store holds for member m of the sorted set
ScoreOf(st, m) == IF m = "y" THEN st.Y ELSE st.Z

\* ZRANGE key 0 0 that answers with the member of the highest score
SortedSet_lowest_mutant(st) ==
    IF st.Z = Absent /\ st.Y = Absent THEN None
    ELSE IF st.Z > st.Y THEN "x" ELSE "y"

\* ZRANGE key 0 0: the member of the lowest score, the first in
\* lexicographic order among equals; None when the set is empty
SortedSet_lowest(st) ==
    IF st.Z = Absent /\ st.Y = Absent THEN None
    ELSE IF st.Y = Absent THEN "x"
    ELSE IF st.Z = Absent THEN "y"
    ELSE IF st.Z <= st.Y THEN "x" ELSE "y"

\* the block of SortedSet.popitem() with its default arguments
SortedSet_popitem_block(w) ==
    LET w1 == Session_mark_query(w, {})
        w2 == IF w1.err # NoError THEN w1
              ELSE client_command(w1, Cmd("READ", "Z", 0, ""))
        m == SortedSet_lowest(w.store)
        w3 == Session_mark_manipulative(w2, {})
    IN IF w2.err # NoError THEN w2
       ELSE IF m = None THEN Raise(w2, "KeyError")
       ELSE IF w3.err # NoError THEN w3
       ELSE client_command(w3, IF ScoreOf(w.store, m) - 1 <= 0
                               THEN Cmd("ZREM", "Z", 0, m)
                               ELSE Cmd("ZINCRBY", "Z", 0 - 1, m))

\* SortedSet.popitem(), and SortedSet.pop() without arguments, called with no
\* transaction active and run without interruption:
\* session.transaction(block, [self.key], ignore_double=True)
SortedSet_popitem(w) ==
    LET w0 == [w EXCEPT !.txn = Transaction_init({"Z"})]
        w1 == Transaction_enter(w0)
        w2 == IF w1.err # NoError THEN w1 ELSE SortedSet_popitem_block(w1)
        w3 == IF w1.err # NoError THEN w1 ELSE Transaction_exit(w2, w2.err)
    IN [w3 EXCEPT !.txn = w.txn]

----------------------------------------------------------------------------
(* sider/entity: the mapper of a class whose key field is login.  The hash *)
(* of an entity is the hash H, whose one field holds the login.            *)

\* the objects of the mapped class the application holds
Entities == {[id |-> i, login |-> l] : i \in {1, 2}, l \in {"v", "w"}}

\* idmap[entity_key] = value
Register(idmap, entity_key, value) ==
    [k \in DOMAIN idmap \cup {entity_key} |->
        IF k = entity_key THEN value ELSE idmap[k]]

\* Map.load_value: the fields are read from the hash, then the identity map
\* is consulted
Map_load_value(w) ==
    LET w1 == Container_read(w, "H", "getitem")
        w2 == IF w1.identity_map = None THEN Raise(w1, "AttributeError")
              ELSE w1
        entity_key == w1.store.H
        instance == [id |-> 0 - Cardinality(DOMAIN w1.identity_map),
                     login |-> entity_key]
    IN IF w1.err # NoError THEN w1
       ELSE IF entity_key = None THEN Raise(w1, "KeyError")
       ELSE IF w2.err # NoError THEN w2
       ELSE IF entity_key \in DOMAIN w2.identity_map THEN w2
       ELSE [w2 EXCEPT !.identity_map = Register(@, entity_key, instance)]

\* Map.save_value of an instance of the mapped class; the attributes of a
\* Schema object are the four listed
Map_save_value(w, value) ==
    LET w1 == IF "get_key" \in {"fields", "names", "key_field",
                                 "key_field_name"}
              THEN w ELSE Raise(w, "AttributeError")
        entity_key == value.login
        w2 == IF w1.identity_map = None THEN Raise(w1, "AttributeError")
              ELSE w1
        w3 == Hash_save_value(w2, entity_key)
    IN IF w1.err # NoError THEN w1
       ELSE IF w2.err # NoError THEN w2
       ELSE IF /\ entity_key \in DOMAIN w2.identity_map
               /\ w2.identity_map[entity_key] # value
            THEN Raise(w2, "KeyFieldError")
       ELSE IF w3.err # NoError THEN w3
       ELSE [w3 EXCEPT !.identity_map = Register(@, entity_key, value)]

----------------------------------------------------------------------------
(* sider/types.py: class Tuple.  A byte string is a sequence of characters *)

DigitChars == <<"0", "1", "2", "3", "4", "5", "6", "7", "8", "9">>

RECURSIVE str(_)
\* str(n).encode('ascii') of a natural number
str(n) ==
    IF n < 10 THEN <<DigitChars[n + 1]>>
    ELSE str(n \div 10) \o <<DigitChars[(n % 10) + 1]>>

\* the value of a decimal digit
DigitValue(c) == (CHOOSE i \in DOMAIN DigitChars : DigitChars[i] = c) - 1

RECURSIVE int(_)
\* int(b) of a string of digits
int(b) ==
    IF Len(b) = 1 THEN DigitValue(b[1])
    ELSE 10 * int(SubSeq(b, 1, Len(b) - 1)) + DigitValue(b[Len(b)])

RECURSIVE ByteJoin(_, _)
\* sep.join(parts)
ByteJoin(sep, parts) ==
    IF parts = <<>> THEN <<>>
    ELSE IF Len(parts) = 1 THEN parts[1]
    ELSE parts[1] \o sep \o ByteJoin(sep, Tail(parts))

\* b.index(c): the first position of c in b, counted from 1; 0 stands for
\* the ValueError of a character that is not there
ByteIndex(b, c) ==
    IF \E i \in DOMAIN b : b[i] = c
    THEN CHOOSE i \in DOMAIN b : b[i] = c /\ \A j \in 1..(i - 1) : b[j] # c
    ELSE 0

RECURSIVE ByteSplit(_, _)
\* b.split(c)
ByteSplit(b, c) ==
    LET pos == ByteIndex(b, c)
    IN IF pos = 0 THEN <<b>>
       ELSE <<SubSeq(b, 1, pos - 1)>> \o ByteSplit(SubSeq(b, pos + 1, Len(b)), c)

\* Tuple(ByteString, ..., ByteString).encode(value) with n field types
Tuple_encode(n, value) ==
    IF Len(value) # n THEN [err |-> "ValueError", value |-> <<>>]
    ELSE LET codes == value
             header == ByteJoin(<<",">>, [i \in DOMAIN codes |-> str(Len(codes[i]))])
         IN [err |-> NoError, value |-> ByteJoin(<<"\n">>, <<header>> \o codes)]

RECURSIVE Tuple_decode_fields(_, _, _, _)
\* the loop of Tuple.decode over zip(self.field_types, sizes)
Tuple_decode_fields(n, bulk, sizes, pos) ==
    IF n = 0 \/ sizes = <<>> THEN <<>>
    ELSE <<SubSeq(bulk, pos + 1, IF pos + Head(sizes) < Len(bulk)
                                 THEN pos + Head(sizes) ELSE Len(bulk))>> \o
         Tuple_decode_fields(n - 1, bulk, Tail(sizes), pos + Head(sizes) + 1)

\* Tuple(ByteString, ..., ByteString).decode(bulk) with n field types
Tuple_decode(n, bulk) ==
    LET pos == ByteIndex(bulk, "\n")
        parts == ByteSplit(SubSeq(bulk, 1, pos - 1), ",")
    IN IF pos = 0 THEN [err |-> "ValueError", value |-> <<>>]
       ELSE IF \E i \in DOMAIN parts : (parts[i] = <<>> \/ \E k \in DOMAIN parts[i] :
                                      \A j \in DOMAIN DigitChars : DigitChars[j] # parts[i][k])
       THEN [err |-> "ValueError", value |-> <<>>]
       ELSE [err |-> NoError,
             value |-> Tuple_decode_fields(
                n, bulk, [i \in DOMAIN parts |-> int(parts[i])], pos)]

----------------------------------------------------------------------------
(* The application: transaction calls, blocks, and the other session *)

Modes == {"with", "transaction", "iter", "call"}

RetryModes == {"transaction", "iter", "call"}

Top == frames[Len(frames)]

Front(q) == SubSeq(q, 1, Len(q) - 1)

CountOp(cmds, op) == Cardinality({i \in 1..Len(cmds) : cmds[i].op = op})

SetWorld(w) ==
    /\ store' = w.store
    /\ client' = w.client
    /\ ctx' = w.ctx
    /\ txn' = w.txn
    /\ pipe' = w.pipe
    /\ conn' = w.conn

\* the variables of the scripted block, which the free block leaves alone
scripted == <<up, script, applied, zop, current>>

\* the state after Session(client), on a server of version v
InitServer(items, v) ==
    /\ store = [L |-> items, H |-> None, Z |-> 1, Y |-> Absent,
                S |-> {}, T |-> {}, version |-> v]
    /\ client = "basic"
    /\ ctx = [t \in {"A", "B"} |-> LocalDict_initial]
    /\ txn = Transaction_init({})
    /\ pipe = NewPipe
    /\ conn = NewConn
    /\ frames = <<>>
    /\ pc = "idle"
    /\ exc = NoError
    /\ stale = FALSE
    /\ manip = FALSE
    /\ runs = 0
    /\ conflicts = 0
    /\ committed = FALSE
    /\ up = None
    /\ script = "off"
    /\ applied = 0
    /\ zop = None
    /\ current = <<>>

\* a current server
Init == InitServer(<<"a", "b", "c">>, "2.6")

\* any server
InitAny == \E v \in {"2.2", "2.4", "2.6"} : InitServer(<<"a", "b", "c">>, v)

\* The application starts a transaction while the session has none:
\*   with Transaction(session, ks): ...                      ("with")
\*   session.transaction(block, ks)                          ("transaction")
\*   for trial in Transaction(session, ks): ...              ("iter")
\*   Transaction(session, ks)(block, cks)                    ("call")
StartCall(mode, ks, cks) ==
    /\ pc = "idle"
    /\ current_transaction(World) = None
    /\ mode = "call" \/ cks = {}
    /\ ks = {} \/ cks = {}
    /\ txn' = IF mode = "transaction" THEN txn ELSE Transaction_init(ks)
    /\ frames' = <<[mode |-> mode, trial |-> 0, joined |-> FALSE,
                    keys |-> IF mode = "transaction" THEN ks ELSE cks]>>
    /\ pc' = "enter"
    /\ exc' = NoError
    /\ stale' = FALSE
    /\ manip' = FALSE
    /\ runs' = 0
    /\ conflicts' = 0
    /\ committed' = FALSE
    /\ UNCHANGED <<store, client, ctx, pipe, conn>>

Call(mode, ks, cks) ==
    /\ StartCall(mode, ks, cks)
    /\ UNCHANGED scripted

\* One attempt begins: Session.transaction constructs a Transaction and
\* enters it, the generator of Transaction.__iter__ enters self and yields
\* the trial, Transaction.__call__ then watches its keys; the block is
\* invoked with the trial.
\* When Transaction.__enter__ raises, the with-statement does not call
\* __exit__; the bare except clause of Transaction.__call__ does, if the
\* transaction was entered.  When self.watch(keys) raises in the loop body of
\* Transaction.__call__, the generator is closed and the scope exits.
Attempt(wi) ==
    /\ pc = "enter"
    /\ LET f == Top
           w0 == [wi EXCEPT !.txn = IF f.mode = "transaction"
                                    THEN Transaction_init(f.keys) ELSE @]
           w1 == Transaction_enter(w0)
           w2 == IF f.mode = "call" /\ w1.err = NoError
                 THEN Transaction_watch(w1, f.keys, FALSE) ELSE w1
           w3 == CASE w2.err = NoError -> w2
                   [] f.mode = "call" /\ w1.err # NoError ->
                         Transaction_call_except(w1, w1.err)
                   [] f.mode = "call" -> Transaction_exit(w2, w2.err)
                   [] OTHER -> w2
       IN /\ SetWorld(w3)
          /\ pc' = IF w3.err = NoError THEN "block" ELSE "done"
          /\ exc' = w3.err
          /\ frames' = IF w3.err = NoError THEN frames ELSE <<>>
          /\ runs' = IF w3.err = NoError THEN runs + 1 ELSE runs
    /\ manip' = FALSE
    /\ stale' = FALSE
    /\ UNCHANGED <<conflicts, committed>>

BeginAttempt == Attempt(World)

Enter ==
    /\ script = "off"
    /\ BeginAttempt
    /\ UNCHANGED scripted

\* the bookkeeping of one operation of the block whose outcome is w
OpStep(w) ==
    /\ w.err # BoundHit
    /\ SetWorld(w)
    /\ pc' = IF w.err = NoError THEN "block" ELSE "raised"
    /\ exc' = w.err
    /\ UNCHANGED <<frames, stale, runs, conflicts, committed>>

\* the free block: any operation may follow any other
Free == pc = "block" /\ script = "off"

\* the block reads a container
Read(c, op) ==
    /\ Free
    /\ OpStep(Container_read(World, c, op))
    /\ UNCHANGED <<manip, scripted>>

\* the block appends to the list
ListAppend ==
    /\ Free
    /\ OpStep(List_append(World, "d"))
    /\ UNCHANGED <<manip, scripted>>

\* the block assigns to an element of the list: list[i] = 'A'; an index in
\* range is the business of the scripted block below
ListSetItem(i) ==
    /\ Free
    /\ OpStep(List_setitem(World, i, "A"))
    /\ UNCHANGED <<manip, scripted>>

\* the block extends the list
\* list_.pop(1)
ListPop ==
    /\ Free
    /\ OpStep(List_pop(World, 1))
    /\ UNCHANGED <<manip, scripted>>

ListExtend ==
    /\ Free
    /\ OpStep(List_extend(World, <<"d">>))
    /\ UNCHANGED <<manip, scripted>>

\* the block sets the field of the hash
HashSetItem ==
    /\ Free
    /\ LET w == Hash_setitem(World, "v")
       IN /\ OpStep(w)
          /\ manip' = (manip \/ w.err = NoError)
    /\ UNCHANGED scripted

\* the block adds the member to the sorted set
SortedSetAdd ==
    /\ Free
    /\ LET w == SortedSet_add_member(World, "x", 1)
       IN /\ OpStep(w)
          /\ manip' = (manip \/ w.err = NoError)
    /\ UNCHANGED scripted

\* the block calls begin_commit() on the current transaction
BeginCommit ==
    /\ Free
    /\ OpStep(Transaction_begin_commit(World))
    /\ UNCHANGED <<manip, scripted>>

\* the block raises an exception of its own
BlockRaise ==
    /\ Free
    /\ pc' = "raised"
    /\ exc' = "AppError"
    /\ UNCHANGED <<store, client, ctx, txn, pipe, conn, frames, stale, manip,
                   runs, conflicts, committed, scripted>>

\* the block opens a transaction while one is current, not asking to join
DoubleOpen(mode, ks) ==
    /\ Free
    /\ OpStep(OpenWhileActive(World, mode, ks, FALSE))
    /\ UNCHANGED <<manip, scripted>>

\* the block calls Session.transaction or Transaction.__call__ with
\* ignore_double=True while a transaction is current: block(0, None) runs
\* inside the current transaction
Join(mode, ks) ==
    /\ Free
    /\ mode \in {"transaction", "call"}
    /\ Len(frames) < MaxDepth
    /\ LET w == OpenWhileActive(World, mode, ks, TRUE)
       IN /\ w.err # BoundHit
          /\ SetWorld(w)
          /\ pc' = IF w.err = NoError THEN "block" ELSE "raised"
          /\ exc' = w.err
          /\ frames' = IF w.err = NoError
                       THEN Append(frames, [mode |-> "joined", trial |-> 0,
                                            joined |-> TRUE, keys |-> {}])
                       ELSE frames
    /\ UNCHANGED <<stale, manip, runs, conflicts, committed, scripted>>

\* the second argument of the block run in frame f: block(trial, t) and
\* block(trial, self) in the retry loops, block(0, None) in the ignore_double
\* branches; "t" is the Transaction object of the slot
Block_transaction(f) == IF f.joined THEN None ELSE "t"

\* the joined block returns to the block that called it
JoinReturn ==
    /\ Free
    /\ Top.joined
    /\ frames' = Front(frames)
    /\ UNCHANGED <<store, client, ctx, txn, pipe, conn, pc, exc, stale, manip,
                   runs, conflicts, committed, scripted>>

\* the except DoubleTransactionError clause of Transaction.__call__, reached
\* after the generator was closed: the exception that leaves the call
Transaction_call_handler(w, e, ignore_double) ==
    IF e = "DoubleTransactionError" /\ ignore_double
    THEN IF current_transaction(w) = None THEN "AttributeError" ELSE e
    ELSE e

\* the exception that leaves a transaction call whose attempt ended with e
Leaves(w, f, e, ignore_double) ==
    IF f.mode = "call" THEN Transaction_call_handler(w, e, ignore_double)
    ELSE e

\* a retry loop that gives up after the first retry
Retries_mutant(f, e) ==
    e = "ConflictError" /\ f.mode \in {"transaction", "iter", "call"}
                        /\ f.trial < 1

\* the except ConflictError clauses of Session.transaction and of
\* Transaction.__iter__: a with-statement has none
Retries(f, e) == e = "ConflictError" /\ f.mode \in RetryModes

\* a retry that forgets to count
NextTrial_mutant(f) == f

\* trial += 1
NextTrial(f) == [f EXCEPT !.trial = @ + 1]

\* The block of an attempt returns: Transaction.__exit__ commits.  A
\* conflict starts the next attempt of a retry loop and leaves a
\* with-statement as ConflictError.
EndAttempt ==
    /\ pc = "block"
    /\ ~Top.joined
    /\ LET w == Transaction_exit(World, NoError)
           retry == Retries(Top, w.err)
       IN /\ w.err # BoundHit
          /\ SetWorld(w)
          /\ retry => Top.trial < MaxTrial
          /\ frames' = IF retry THEN <<NextTrial(Top)>> ELSE <<>>
          /\ pc' = IF retry THEN "enter" ELSE "done"
          /\ exc' = IF retry THEN NoError ELSE w.err
          /\ conflicts' = IF w.err = "ConflictError" THEN conflicts + 1
                          ELSE conflicts
          /\ committed' = (w.err = NoError)
    /\ UNCHANGED <<stale, manip, runs>>

Exit ==
    /\ script = "off"
    /\ EndAttempt
    /\ UNCHANGED scripted

\* An exception leaves the block of an attempt: Transaction.__exit__ resets
\* the pipeline and the exception leaves the transaction call.  The
\* ignore_double given to Transaction.__call__ is read here only.
ExitExc(ignore_double) ==
    /\ pc = "raised"
    /\ ~Top.joined
    /\ LET w == Transaction_exit(World, exc)
       IN /\ SetWorld(w)
          /\ exc' = Leaves(w, Top, exc, ignore_double)
    /\ frames' = <<>>
    /\ pc' = "done"
    /\ UNCHANGED <<stale, manip, runs, conflicts, committed, scripted>>

\* the block catches the exception an operation raised and goes on
Catch ==
    /\ pc = "raised"
    /\ script = "off"
    /\ pc' = "block"
    /\ exc' = NoError
    /\ UNCHANGED <<store, client, ctx, txn, pipe, conn, frames, stale, manip,
                   runs, conflicts, committed, scripted>>

\* an exception leaves a joined block and arrives in the block that called it
PropagateJoined ==
    /\ pc = "raised"
    /\ Top.joined
    /\ frames' = Front(frames)
    /\ UNCHANGED <<store, client, ctx, txn, pipe, conn, pc, exc, stale, manip,
                   runs, conflicts, committed, scripted>>

\* the other session writes to a key while the block runs: List.append,
\* Hash.__setitem__, SortedSet.add with no transaction
OtherWrite(k) ==
    LET cmd == CASE k = "L" -> Cmd("RPUSH", "L", 0, "x")
                 [] k = "H" -> Cmd("HSET", "H", 0, "w")
                 [] OTHER -> Cmd("ZINCRBY", "Z", 1, "")
        w == execute_immediate(World, cmd)
    IN /\ pc = "block"
       /\ w.err = NoError
       /\ store' = w.store
       /\ conn' = w.conn
       /\ stale' = (stale \/ k \in conn.watched)
       /\ UNCHANGED <<client, ctx, txn, pipe, frames, pc, exc, manip,
                      runs, conflicts, committed, scripted>>

Next ==
    \/ \E mode \in Modes, ks \in KeyChoices, cks \in KeyChoices :
          Call(mode, ks, cks)
    \/ Enter
    \/ \E c \in {"L", "H"} : \E op \in ReadOpsOf(c) : Read(c, op)
    \/ ListAppend
    \/ ListSetItem(MaxLen)
    \/ ListExtend
    \/ HashSetItem
    \/ BeginCommit
    \/ BlockRaise
    \/ \E mode \in Modes, ks \in KeyChoices : DoubleOpen(mode, ks)
    \/ \E mode \in Modes, ks \in KeyChoices : Join(mode, ks)
    \/ JoinReturn
    \/ Exit
    \/ \E ignore_double \in BOOLEAN : ExitExc(ignore_double)
    \/ Catch
    \/ PropagateJoined
    \/ \E k \in {"L", "H"} : OtherWrite(k)

\* the session and the other session at work on the list and the hash
Spec == Init /\ [][Next]_vars

\* A compound operation of SortedSet called while the session has no
\* transaction: self.session.transaction(block, [self.key], ignore_double=True)
CompoundCall(o) ==
    /\ StartCall("transaction", {"Z"}, {})
    /\ script' = "enter"
    /\ zop' = o
    /\ current' = <<>>
    /\ UNCHANGED <<up, applied>>

CompoundEnter ==
    /\ script = "enter"
    /\ zop # None
    /\ BeginAttempt
    /\ script' = "read"
    /\ current' = <<>>
    /\ UNCHANGED <<up, applied, zop>>

CompoundRead ==
    /\ pc = "block"
    /\ script = "read"
    /\ zop # None
    /\ LET w == SortedSet_compound_read(World)
       IN /\ OpStep(w)
          /\ current' = SortedSet_compound_local(World, w)
    /\ script' = "write"
    /\ UNCHANGED <<manip, up, applied, zop>>

CompoundWrite ==
    /\ pc = "block"
    /\ script = "write"
    /\ zop # None
    /\ OpStep(SortedSet_compound_write(World, zop, current))
    /\ script' = "end"
    /\ UNCHANGED <<manip, up, applied, zop, current>>

\* the block returns
CompoundExit ==
    /\ script = "end"
    /\ zop # None
    /\ EndAttempt
    /\ script' = IF pc' = "enter" THEN "enter" ELSE "end"
    /\ UNCHANGED <<up, applied, zop, current>>

\* the other session removes the member of the sorted set: del zset[member]
OtherDelete ==
    LET w == execute_immediate(World, Cmd("ZREM", "Z", 0, ""))
    IN /\ pc = "block"
       /\ store' = w.store
       /\ conn' = w.conn
       /\ stale' = (stale \/ "Z" \in conn.watched)
       /\ UNCHANGED <<client, ctx, txn, pipe, frames, pc, exc, manip,
                      runs, conflicts, committed, scripted>>

\* Hash.setdefault(key, default) called while the session has no
\* transaction; the other session may act between its read and its write
HashSetdefaultCall ==
    /\ pc = "idle"
    /\ current_transaction(World) = None
    /\ pc' = "block"
    /\ script' = "hread"
    /\ zop' = "hsetdefault"
    /\ UNCHANGED <<store, client, ctx, txn, pipe, conn, frames, exc, stale,
                   manip, runs, conflicts, committed, up, applied, current>>

HashSetdefaultRead ==
    /\ pc = "block"
    /\ script = "hread"
    /\ LET w == Hash_setdefault_read(World)
       IN /\ w.err = NoError
          /\ SetWorld(w)
          /\ current' = <<store.H>>
    /\ script' = "hwrite"
    /\ UNCHANGED <<frames, pc, exc, stale, manip, runs, conflicts, committed,
                   up, applied, zop>>

\* the rest of the method: current becomes <<the value returned>>
HashSetdefaultWrite ==
    /\ pc = "block"
    /\ script = "hwrite"
    /\ LET w == Hash_setdefault_write(World, current, "v")
       IN /\ SetWorld(w)
          /\ exc' = w.err
          /\ current' = IF current[1] = None THEN <<"v">> ELSE current
    /\ pc' = "done"
    /\ script' = "hend"
    /\ UNCHANGED <<frames, stale, manip, runs, conflicts, committed,
                   up, applied, zop>>

\* a call of the free block that may write to the hash or the sorted set:
\* del hash[key], hash.setdefault(key, 'v'), del zset[member] or a compound
\* method of the sorted set
WriteStep(w) ==
    /\ Free
    /\ OpStep(w)
    /\ manip' = (manip \/ (w.err = NoError /\ CountOp(
                    [i \in 1..Len(w.issued) |-> [op |-> w.issued[i]]],
                    "WRITE") > 0))
    /\ UNCHANGED scripted

NextZ ==
    \/ \E mode \in Modes, ks \in {{}, {"Z"}} : Call(mode, ks, {})
    \/ Enter
    \/ \E c \in {"H", "Z"} : \E op \in ReadOpsOf(c) : Read(c, op)
    \/ HashSetItem
    \/ SortedSetAdd
    \/ BeginCommit
    \/ Exit
    \/ \E ignore_double \in BOOLEAN : ExitExc(ignore_double)
    \/ Catch
    \/ \E k \in {"H", "Z"} : OtherWrite(k)

    \/ \E o \in CompoundOps : CompoundCall(o)
    \/ CompoundEnter
    \/ CompoundRead
    \/ CompoundWrite
    \/ CompoundExit
    \/ OtherDelete
    \/ HashSetdefaultCall
    \/ HashSetdefaultRead
    \/ HashSetdefaultWrite
    \/ WriteStep(Hash_delitem(World))
    \/ WriteStep(Hash_setdefault(World, "v"))
    \/ WriteStep(SortedSet_delitem(World))
    \/ \E o \in CompoundOps : WriteStep(SortedSet_compound_joined(World, o))

\* the session and the other session at work on the hash and the sorted set
SpecZ == Init /\ [][NextZ]_vars

----------------------------------------------------------------------------
(* The backend fails a WATCH with an error that is no conflict *)

\* an attempt begins and the first WATCH it sends fails
EnterFailing ==
    /\ script = "off"
    /\ Attempt([World EXCEPT !.fail = TRUE])
    /\ UNCHANGED scripted

\* the block reads a container and the WATCH the read sends fails
ReadFailing(c, op) ==
    /\ Free
    /\ OpStep(Container_read([World EXCEPT !.fail = TRUE], c, op))
    /\ UNCHANGED <<manip, scripted>>

NextFail ==
    \/ \E mode \in Modes, ks \in KeyChoices, cks \in KeyChoices :
          Call(mode, ks, cks)
    \/ Enter
    \/ EnterFailing
    \/ \E c \in {"L", "H"} : \E op \in {"len", "getitem"} : Read(c, op)
    \/ \E c \in {"L", "H"} : \E op \in {"len", "getitem"} : ReadFailing(c, op)
    \/ ListAppend
    \/ ListPop
    \/ HashSetItem
    \/ Exit
    \/ \E ignore_double \in BOOLEAN : ExitExc(ignore_double)
    \/ Catch
    \/ \E k \in {"L", "H"} : OtherWrite(k)

\* the session at work on the list and the hash over a backend that may fail
SpecFail == InitAny /\ [][NextFail]_vars

----------------------------------------------------------------------------
(* A second thread of control uses the session *)

\* thread B runs "with Transaction(session, ks): hash_[k] = v" without being
\* preempted; the Transaction object, its pipeline and its connection are
\* its own, and the commit flags the connection of thread A as any
\* modification of a watched key does
Thread_with_block(w, ks, v) ==
    LET wB == [OnThread(w, "B") EXCEPT !.txn = Transaction_init(ks)]
        w1 == Transaction_enter(wB)
        w2 == IF w1.err = NoError THEN Hash_setitem(w1, v) ELSE w1
        w3 == IF w1.err # NoError THEN w1 ELSE Transaction_exit(w2, w2.err)
        back == [w3 EXCEPT !.ident = w.ident, !.txn = w.txn,
                           !.pipe = w.pipe, !.conn = w.conn]
    IN IF w3.err = NoError THEN Touch(back, "H") ELSE back

\* a call made by thread B: its outcome is its own
ThreadStep(w) ==
    /\ pc \in {"idle", "block"}
    /\ script = "off"
    /\ w.err # BoundHit
    /\ SetWorld(w)
    /\ UNCHANGED <<frames, pc, exc, stale, manip, runs, conflicts, committed,
                   scripted>>

ThreadTransaction(ks) == ThreadStep(Thread_with_block(World, ks, "b"))

\* the key sets passed to a transaction on the hash
KeyChoicesH == {{}, {"H"}}

NextThreads ==
    \/ \E mode \in Modes, ks \in KeyChoicesH, cks \in KeyChoicesH :
          Call(mode, ks, cks)
    \/ Enter
    \/ \E c \in {"L", "H"} : \E op \in {"len", "getitem"} : Read(c, op)
    \/ ListAppend
    \/ HashSetItem
    \/ BeginCommit
    \/ Exit
    \/ \E ignore_double \in BOOLEAN : ExitExc(ignore_double)
    \/ Catch
    \/ \E c \in {"L", "H"} : \E op \in {"len", "getitem"} :
          ThreadStep(Container_read(OnThread(World, "B"), c, op))
    \/ ThreadStep(List_append(OnThread(World, "B"), "x"))
    \/ ThreadStep(Hash_setitem(OnThread(World, "B"), "w"))
    \/ \E ks \in KeyChoicesH : ThreadTransaction(ks)

\* two threads of control at work on one session
SpecThreads == Init /\ [][NextThreads]_vars

----------------------------------------------------------------------------
(* Session.set on the containers, and the sorted set as a set *)

\* the values the application saves
SaveLists == {<<>>, <<"a">>, <<"b", "a">>, <<"a", "a">>}

SaveHashes == {None, "v", "w"}

SaveSets == SUBSET {"m", "n"}

SaveScores == 0..MaxScore

\* a call made while the session has no transaction; the application goes
\* on after an exception
IdleStep(w) ==
    /\ pc = "idle"
    /\ current_transaction(World) = None
    /\ w.err # BoundHit
    /\ SetWorld(w)
    /\ exc' = w.err
    /\ UNCHANGED <<frames, pc, stale, manip, runs, conflicts, committed,
                   up, script, applied>>

\* session.set(key, value, value_type), session.get(key, mapper) or
\* sortedset.add(member)
Save(w) == IdleStep(w) /\ UNCHANGED <<zop, current>>

\* popped = sortedset.pop(): current becomes <<popped>>
PopSet ==
    /\ IdleStep(SortedSet_popitem(World))
    /\ zop' = "popset"
    /\ current' = <<SortedSet_lowest(store)>>

\* the other session appends to the list while the session is idle
IdleOtherAppend ==
    /\ pc = "idle"
    /\ LET w == execute_immediate(World, Cmd("RPUSH", "L", 0, "x"))
       IN w.err = NoError /\ store' = w.store
    /\ UNCHANGED <<client, ctx, txn, pipe, conn, frames, pc, exc, stale, manip,
                   runs, conflicts, committed, scripted>>

NextSave ==
    \/ \E vs \in SaveLists : Save(List_save_value(World, vs))
    \/ \E ms \in SaveSets : Save(Set_save_value(World, ms))
    \/ \E v \in SaveHashes : Save(Hash_save_value(World, v))
    \/ \E zx \in SaveScores, zy \in SaveScores : Save(SortedSet_save_value(World, zx, zy))
    \/ \E m \in {"x", "y"} : Save(SortedSet_add_member(World, m, 1))
    \/ PopSet
    \/ \E value \in Entities : Save(Map_save_value(World, value))
    \/ Save(Map_load_value(World))
    \/ IdleOtherAppend

\* Session.set on every container type, and the sorted set used as a set
SpecSave == InitAny /\ [][NextSave]_vars

----------------------------------------------------------------------------
(* The Tuple codec at work: current is <<the number of field types, the
   value in hand>> *)

\* the application takes a Tuple type of n fields and a tuple
TupleChoose(n, value) ==
    /\ pc = "idle"
    /\ zop = None
    /\ zop' = "tuple"
    /\ script' = "value"
    /\ current' = <<n, value>>
    /\ UNCHANGED <<store, client, ctx, txn, pipe, conn, frames, pc, exc, stale,
                   manip, runs, conflicts, committed, up, applied>>

TupleEncode ==
    /\ zop = "tuple"
    /\ script = "value"
    /\ LET r == Tuple_encode(current[1], current[2])
       IN /\ exc' = r.err
          /\ script' = IF r.err = NoError THEN "bulk" ELSE "end"
          /\ current' = <<current[1], r.value>>
    /\ UNCHANGED <<store, client, ctx, txn, pipe, conn, frames, pc, stale,
                   manip, runs, conflicts, committed, up, applied, zop>>

TupleDecode ==
    /\ zop = "tuple"
    /\ script = "bulk"
    /\ LET r == Tuple_decode(current[1], current[2])
       IN /\ exc' = r.err
          /\ current' = <<current[1], r.value>>
    /\ script' = "end"
    /\ UNCHANGED <<store, client, ctx, txn, pipe, conn, frames, pc, stale,
                   manip, runs, conflicts, committed, up, applied, zop>>

NextTuple ==
    \/ \E n \in 0..MaxFields, value \in UNION {[1..l -> UNION {[1..k -> {"a", ",", "\n"}] : k \in 0..MaxBytes}]
                         : l \in 0..MaxFields} : TupleChoose(n, value)
    \/ TupleEncode
    \/ TupleDecode

\* a tuple is encoded and the bulk is decoded
SpecTuple == Init /\ [][NextTuple]_vars

----------------------------------------------------------------------------
(* The scripted block of sidertests/test_transaction.py, test_transaction_
   iterate and test_transaction_call:
       up = list1[0].upper(); list1[0] = up
   run by a transaction that watches the list, while the other session
   appends 'x' at any moment, between the attempts too. *)

\* for trial in Transaction(session, [keyid]): ..., t(block) and
\* session.transaction(block, [keyid])
IterCall(mode) ==
    /\ mode \in RetryModes
    /\ StartCall(mode, IF mode = "call" THEN {} ELSE {"L"},
                       IF mode = "call" THEN {"L"} ELSE {})
    /\ script' = "enter"
    /\ UNCHANGED <<up, applied, zop, current>>

IterEnter ==
    /\ script = "enter"
    /\ BeginAttempt
    /\ script' = "read"
    /\ up' = None
    /\ UNCHANGED <<applied, zop, current>>

\* up = list1[0].upper()
IterRead ==
    /\ pc = "block"
    /\ script = "read"
    /\ LET w == Container_read(World, "L", "getitem")
       IN /\ OpStep(w)
          /\ up' = IF w.err = NoError /\ ~w.queued THEN Upper(store.L[1])
                   ELSE None
    /\ script' = "write"
    /\ UNCHANGED <<manip, applied, zop, current>>

\* list1[0] = up
IterWrite ==
    /\ pc = "block"
    /\ script = "write"
    /\ LET w == List_setitem(World, 0, up)
       IN /\ OpStep(w)
          /\ applied' = IF w.err = NoError /\ ~w.queued THEN applied + 1
                        ELSE applied
    /\ script' = "end"
    /\ UNCHANGED <<manip, up, zop, current>>

\* the block returns
IterExit ==
    /\ script = "end"
    /\ EndAttempt
    /\ script' = IF pc' = "enter" THEN "enter" ELSE "end"
    /\ applied' = IF committed' THEN applied + CountOp(pipe.stack, "LSET")
                  ELSE applied
    /\ UNCHANGED <<up, zop, current>>

\* list2.append('x')
IterOtherAppend ==
    LET w == execute_immediate(World, Cmd("RPUSH", "L", 0, "x"))
    IN /\ script # "off"
       /\ w.err = NoError
       /\ store' = w.store
       /\ conn' = w.conn
       /\ stale' = (stale \/ "L" \in conn.watched)
       /\ UNCHANGED <<client, ctx, txn, pipe, frames, pc, exc, manip,
                      runs, conflicts, committed, scripted>>

NextIter ==
    \/ \E mode \in RetryModes : IterCall(mode)
    \/ IterEnter
    \/ IterRead
    \/ IterWrite
    \/ IterExit
    \/ IterOtherAppend

SpecIter == Init /\ [][NextIter]_vars

\* the same, with a thread of control that goes on running: the block and
\* the retry loop take their next step whenever they have one
SpecIterLive ==
    SpecIter /\ WF_vars(IterEnter \/ IterRead \/ IterWrite \/ IterExit)

----------------------------------------------------------------------------
(* Set.symmetric_difference_update(operand), called with no transaction
   active on two Sets of the session, S (self) and T (operand), while the
   other session adds members to and removes members from both.  The method
   runs its block through client.transaction(block, self.key): a pipeline of
   its own that watches the given key, runs the block, executes, and starts
   over when the execution meets a conflict. *)

\* what the call does at one position and where it goes next
SymStep(at, w, next) ==
    /\ pc = "idle"
    /\ zop = "symdiff"
    /\ script = at
    /\ SetWorld(w)
    /\ script' = next
    /\ UNCHANGED <<frames, pc, stale, manip, runs, conflicts, committed, up,
                   applied, zop>>

\* set_.symmetric_difference_update(operand)
SymCall ==
    /\ pc = "idle"
    /\ script \in {"off", "end"}
    /\ script' = "watch"
    /\ zop' = "symdiff"
    /\ current' = <<>>
    /\ exc' = NoError
    /\ UNCHANGED <<store, client, ctx, txn, pipe, conn, frames, pc, stale,
                   manip, runs, conflicts, committed, up, applied>>

\* pipe.watch(self.key)
SymWatch ==
    /\ SymStep("watch", pipeline_watch(World, {"S"}), "block")
    /\ UNCHANGED <<exc, current>>

\* block(pipe): SINTER at once, the rest buffered after MULTI
SymBlock ==
    /\ SymStep("block",
               Set_symmetric_difference_block(World, store.S \cap store.T),
               "execute")
    /\ current' = <<store.S \cap store.T>>
    /\ UNCHANGED exc

\* pipe.execute(); except WatchError: continue
SymExecute ==
    LET w == pipeline_execute(World)
    IN /\ SymStep("execute", w,
                  IF w.err = "WatchError" THEN "watch" ELSE "end")
       /\ exc' = IF w.err = "WatchError" THEN NoError ELSE w.err
       /\ UNCHANGED current

\* the other session: set_.add(m) and set_.discard(m) on either set
SymOther(k, o, m) ==
    LET w == execute_immediate(World, Cmd(o, k, 0, m))
    IN /\ zop = "symdiff"
       /\ store' = w.store
       /\ conn' = w.conn
       /\ UNCHANGED <<client, ctx, txn, pipe, frames, pc, exc, stale, manip,
                      runs, conflicts, committed, scripted>>

NextSym ==
    \/ SymCall
    \/ SymWatch
    \/ SymBlock
    \/ SymExecute
    \/ \E k \in {"S", "T"}, o \in {"SADD", "SREM"}, m \in {"a", "b"} :
          SymOther(k, o, m)

\* an old server: Set._raw_delete sends one SREM for each element
SpecSym == InitServer(<<"a", "b", "c">>, "2.2") /\ [][NextSym]_vars

----------------------------------------------------------------------------
(* list(view) for a List of n items, 0 <= n <= MaxItems, the item at index
   i being i + 1, with no transaction active and nobody else at work *)

\* self.session.client.lrange(self.key, i, i + step): both ends included
List_iter_lrange(st, i) ==
    SubSeq(st.L, i + 1, IF Len(st.L) < i + step + 1 THEN Len(st.L)
                        ELSE i + step + 1)

\* iter(view): i = 0, chunk = None; current is what was yielded so far
ListIterStart ==
    /\ pc = "idle"
    /\ script = "off"
    /\ script' = "fetch"
    /\ zop' = "iterate"
    /\ current' = <<>>
    /\ UNCHANGED <<store, client, ctx, txn, pipe, conn, frames, pc, exc, stale,
                   manip, runs, conflicts, committed, up, applied>>

\* one round of the while loop: the chunk is fetched at index i, which is 0
\* in every round, and its values are yielded; the loop goes on while the
\* chunk holds step values or more.  The rounds are followed until more
\* values were yielded than the list holds.
ListIterChunk ==
    LET chunk == List_iter_lrange(store, 0)
    IN /\ zop = "iterate"
       /\ script = "fetch"
       /\ Len(current) <= Len(store.L)
       /\ current' = current \o chunk
       /\ script' = IF Len(chunk) >= step THEN "fetch" ELSE "end"
       /\ UNCHANGED <<store, client, ctx, txn, pipe, conn, frames, pc, exc,
                      stale, manip, runs, conflicts, committed, up, applied,
                      zop>>

NextList ==
    \/ ListIterStart
    \/ ListIterChunk

\* the generator is run to its end by list()
SpecList ==
    /\ \E n \in 0..MaxItems : InitServer([i \in 1..n |-> i], "2.6")
    /\ [][NextList]_vars
    /\ WF_vars(NextList)

----------------------------------------------------------------------------
(* Properties *)

\* C1: a retrying call runs its block once per attempt and passes it the
\* number of conflicts so far (0 at first, k after the k-th conflict); the
\* call returns normally only after an attempt committed, and nothing of
\* the call runs after a committed attempt.
C1_TrialPerAttempt ==
    /\ (frames # <<>> /\ frames[1].mode \in {"transaction", "iter", "call"}) =>
          /\ frames[1].trial = conflicts
          /\ runs = IF pc = "enter" THEN conflicts ELSE conflicts + 1
    /\ committed => pc = "done"
    /\ (pc = "done" /\ exc = NoError) => committed

\* a retrying call that met MaxTrial conflicts in a row and then committed
C1_Witness ==
    /\ pc = "done"
    /\ committed
    /\ conflicts = MaxTrial
    /\ runs = MaxTrial + 1

\* C2: no step that ends a call of Session.transaction, of
\* Transaction.__call__ or of a for-loop over a Transaction ends it with
\* ConflictError.
C2_ConflictConsumed ==
    [][(/\ frames # <<>>
        /\ frames[1].mode \in {"transaction", "iter", "call"}
        /\ pc' = "done") => exc' # "ConflictError"]_vars

\* a retrying call that ended with an exception of the block after conflicts
C2_Witness ==
    /\ pc = "done"
    /\ conflicts = MaxTrial
    /\ exc = "AppError"

\* C3: when the other session has modified a watched key during the
\* attempt, the commit of the attempt ends with ConflictError and leaves the
\* store as it is, whatever the attempt has queued.
C3_CommitRefused ==
    (pc = "block" /\ stale) =>
        LET w == Transaction_exit(World, NoError)
        IN w.err = "ConflictError" /\ w.store = store

\* a with-statement that ended with ConflictError after the other session
\* wrote to a watched key, while the write the block had queued to the hash
\* is not in the store
C3_Witness ==
    /\ pc = "done"
    /\ exc = "ConflictError"
    /\ stale
    /\ manip
    /\ store.H = None
    /\ store.Z = 1

\* C4: in the scripted block (read element 0, upper-case it, write it back)
\* the write of the block reaches the store at most once, and once an
\* attempt has committed the list is the original with element 0
\* upper-cased, followed by the appends of the other session.
C4_WriteOnce ==
    script # "off" =>
        /\ applied <= 1
        /\ committed =>
              /\ applied = 1
              /\ SubSeq(store.L, 1, 3) = <<"A", "b", "c">>
              /\ \A i \in 4..Len(store.L) : store.L[i] = "x"

\* C5: after a transaction scope has exited, between the attempts of a
\* retry loop and after the call, the session has no current transaction,
\* session.client is the handle it was before any scope was entered, and the
\* commit-phase flag of the transaction is false.
C5_Cleanup ==
    (pc = "done" \/ (pc = "enter" /\ runs > 0)) =>
        /\ current_transaction(World) = None
        /\ client = "basic"
        /\ ~txn.commit_phase

\* a scope that exited because the commit itself raised
C5_Witness ==
    /\ pc = "done"
    /\ exc = "ResponseError"
    /\ runs > 0

\* C6: when an exception other than ConflictError leaves the block, the call
\* ends with that same exception, the block is not run again and the store
\* is left as it is.
C6_SameException ==
    [][(/\ pc = "raised"
        /\ ~Top.joined
        /\ exc # "ConflictError"
        /\ pc' # "block") =>
            (pc' = "done" /\ exc' = exc /\ runs' = runs /\ store' = store)]_vars

\* C7: while a transaction is current, opening another one without
\* ignore_double raises DoubleTransactionError, issues no backend command and
\* leaves the transaction, the transaction slot, the client handle, the
\* pipeline and the watch set as they are.
C7_DoubleRefused ==
    pc = "block" =>
        \A mode \in Modes, ks \in KeyChoices :
            LET w == OpenWhileActive(World, mode, ks, FALSE)
            IN /\ w.err = "DoubleTransactionError"
               /\ w.issued = <<>>
               /\ w.txn = txn
               /\ w.ctx = ctx
               /\ w.client = client
               /\ w.pipe = pipe
               /\ w.conn = conn
               /\ w.store = store

\* a second transaction was refused while the first is in commit phase with
\* a write queued
C7_Witness ==
    /\ pc = "raised"
    /\ exc = "DoubleTransactionError"
    /\ txn.commit_phase
    /\ pipe.stack # <<>>

\* C8: once the block has written to the hash or to the sorted set, every
\* read operation of the hash and of the sorted set raises CommitError and
\* issues no backend command.
C8_ReadsRaise ==
    (pc = "block" /\ manip) =>
        \A c \in {"H", "Z"} : \A op \in ReadOpsOf(c) :
            LET w == Container_read(World, c, op)
            IN w.err = "CommitError" /\ w.issued = <<>>

\* C9: in a transaction, a read of the list that follows an append to the
\* list raises CommitError, and when the CommitError leaves the block the
\* list is what it was before the append.
C9_ReadAfterAppend ==
    (pc = "block" /\ ~Top.joined) =>
        LET w1 == List_append(World, "d")
        IN w1.err = NoError =>
              \A op \in ReadOpsOf("L") :
                  LET w2 == Container_read(w1, "L", op)
                  IN /\ w2.err = "CommitError"
                     /\ Transaction_exit(w2, w2.err).store.L = store.L

\* C10: in commit phase, a write made through the session leaves the store
\* as the other session sees it unchanged until the scope exits, and a
\* successful exit puts every queued write into the store.
C10_Invisible ==
    (pc = "block" /\ txn.commit_phase) =>
        /\ List_append(World, "d").store = store
        /\ List_setitem(World, 0, "A").store = store
        /\ List_extend(World, <<"d">>).store = store
        /\ Hash_setitem(World, "v").store = store
        /\ SortedSet_add_member(World, "x", 1).store = store
        /\ LET w == Transaction_exit(World, NoError)
           IN w.err = NoError => w.store = ApplyAll(store, pipe.stack).store

\* C11: a read refused with CommitError leaves the transaction current and
\* in commit phase and keeps what is queued, and a normal exit of the scope
\* that follows commits what is queued.
C11_CommitErrorRecoverable ==
    (pc = "block" /\ txn.commit_phase) =>
        \A c \in {"H", "Z"} : \A op \in ReadOpsOf(c) :
            LET w == Container_read(World, c, op)
                caught == [w EXCEPT !.err = NoError]
                w2 == Transaction_exit(caught, NoError)
                r == ApplyAll(store, pipe.stack)
            IN w.err = "CommitError" =>
                  /\ current_transaction(w) = current_transaction(World)
                  /\ current_transaction(w) # None
                  /\ w.client = client
                  /\ w.txn = txn
                  /\ w.pipe = pipe
                  /\ w.conn = conn
                  /\ w.store = store
                  /\ (~conn.dirty /\ r.ok /\ Fits(r.store)) =>
                        (w2.err = NoError /\ w2.store = r.store)

\* a read of the hash was refused while a write is queued after MULTI
C11_Witness ==
    /\ pc = "raised"
    /\ exc = "CommitError"
    /\ pipe.explicit
    /\ pipe.stack # <<>>
    /\ ~conn.dirty

\* C12: joining the current transaction with ignore_double=True adds the
\* given keys to its watch set and leaves it current, uncommitted and not
\* reset, so that the block runs inside it.
C12_JoinAbsorbs ==
    pc = "block" =>
        \A mode \in {"transaction", "call"}, ks \in KeyChoices :
            LET w == OpenWhileActive(World, mode, ks, TRUE)
            IN /\ w.err = NoError
               /\ w.txn.keys = txn.keys \cup ks
               /\ w.txn.commit_phase = txn.commit_phase
               /\ current_transaction(w) = current_transaction(World)
               /\ w.client = client
               /\ w.pipe.stack = pipe.stack
               /\ w.store = store

\* C13: after a transaction call ended with a backend error that is no
\* conflict, the session has no current transaction, session.client is the
\* handle of before, and a transaction can be entered again.
C13_CleanupAfterBackendError ==
    (pc = "done" /\ exc = "ConnectionError") =>
        /\ current_transaction(World) = None
        /\ client = "basic"
        /\ \A ks \in KeyChoices :
              Transaction_enter([World EXCEPT !.txn = Transaction_init(ks)]).err
                  = NoError

\* C14: an append to the list inside a transaction puts the key of the list
\* into the watch set of the transaction.
C14_ListAutoWatch ==
    pc = "block" =>
        LET w == List_append(World, "d")
        IN w.err = NoError =>
              ("L" \in w.txn.keys /\ "L" \in w.conn.watched)

\* C15: a compound operation of the sorted set called outside a transaction
\* writes nothing before its transaction commits, commits only when the
\* score it read is the score in the store at the commit, then leaves the
\* score the operation is to leave, and returns with no current transaction.
C15_CompoundAtomic ==
    /\ (zop \in CompoundOps /\ pc = "block" /\ script = "write") =>
          SortedSet_compound_write(World, zop, current).store = store
    /\ (zop \in CompoundOps /\ pc = "block" /\ script = "end") =>
          LET w == Transaction_exit(World, NoError)
              z == store.Z
          IN w.err = NoError =>
                /\ current = <<z>>
                /\ w.store.Z = IF zop = "setdefault"
                               THEN (IF z = Absent THEN 1 ELSE z)
                               ELSE (IF z = Absent THEN Absent ELSE z - 1)
    /\ (zop \in CompoundOps /\ pc = "done") =>
          (current_transaction(World) = None /\ client = "basic")

\* a compound operation that committed a write after the other session
\* made an attempt of it fail
C15_Witness ==
    /\ zop \in CompoundOps
    /\ pc = "done"
    /\ committed
    /\ conflicts > 0
    /\ manip = FALSE
    /\ current # <<>>
    /\ store.Z # current[1]

\* C16: Hash.setdefault never replaces a value that is stored under the key
\* when it writes, and it returns the value stored under the key after it.
C16_SetdefaultAtomic ==
    (zop = "hsetdefault" /\ pc = "block" /\ script = "hwrite") =>
        LET w == Hash_setdefault_write(World, current, "v")
        IN /\ store.H # None => w.store.H = store.H
           /\ w.store.H = IF current[1] = None THEN "v" ELSE current[1]

\* C17: an emulated List operation (pop at a middle index) called inside a
\* transaction leaves the store unchanged and puts its writes into the
\* command buffer of that transaction, and a read after it raises
\* CommitError.
C17_EmulatedJoinsAmbient ==
    (pc = "block" /\ current_transaction(World) # None /\ Len(store.L) > 2) =>
        LET w == List_pop(World, 1)
        IN /\ w.err = NoError
           /\ w.store = store
           /\ Len(w.pipe.stack) > Len(pipe.stack)
           /\ Container_read(w, "L", "len").err = "CommitError"

\* C18: a write of a container made inside a transaction (List.extend,
\* Hash.update) does not change the store before the transaction commits.
C18_WritesQueued ==
    (pc = "block" /\ current_transaction(World) # None) =>
        /\ LET w == Hash_update(World, "v")
           IN w.err = NoError => w.store = store
        /\ LET w == List_extend(World, <<"d">>)
           IN w.err = NoError => w.store = store

\* C19: while thread A has a transaction attempt active, a command that
\* thread B issues through the session is executed at once and is neither
\* put into nor sent through the command buffer of the attempt.
C19_BatchExclusive ==
    (pc = "block" /\ current_transaction(World) # None) =>
        LET w == List_append(OnThread(World, "B"), "x")
        IN w.err # BoundHit =>
              /\ w.err = NoError
              /\ ~w.queued
              /\ w.pipe.stack = pipe.stack
              /\ w.store.L = Append(store.L, "x")

\* C20: while thread A has a transaction, session.current_transaction is None
\* in thread B, and thread B enters a transaction of its own without
\* DoubleTransactionError; that sets the slot of thread B and leaves the slot
\* of thread A alone.
C20_SlotPerThread ==
    current_transaction(World) # None =>
        /\ current_transaction(OnThread(World, "B")) = None
        /\ \A ks \in KeyChoicesH :
              LET wB == [OnThread(World, "B") EXCEPT !.txn = Transaction_init(ks)]
                  w == Transaction_enter(wB)
              IN /\ w.err = NoError
                 /\ current_transaction(w) # None
                 /\ w.ctx["A"] = ctx["A"]
                 /\ Thread_with_block(World, ks, "b").err = NoError

\* thread B has committed a transaction of its own since thread A watched
\* the hash in its transaction
C20_Witness ==
    /\ current_transaction(World) # None
    /\ conn.watched = {"H"}
    /\ conn.dirty
    /\ store.H = "b"

\* C21: Session.set on a container type, called with no transaction active,
\* makes the content of the key exactly the value given whatever the key
\* held, and saving the same value again leaves the store as it is.
C21_SaveReplaces ==
    (pc = "idle" /\ current_transaction(World) = None) =>
        /\ \A vs \in SaveLists :
              LET w == List_save_value(World, vs)
              IN /\ w.err = NoError /\ w.store.L = vs
                 /\ List_save_value(w, vs).store = w.store
        /\ \A ms \in SaveSets :
              LET w == Set_save_value(World, ms)
              IN /\ w.err = NoError /\ w.store.S = ms
                 /\ Set_save_value(w, ms).store = w.store
        /\ \A v \in SaveHashes :
              LET w == Hash_save_value(World, v)
              IN /\ w.err = NoError /\ w.store.H = v
                 /\ Hash_save_value(w, v).store = w.store
        /\ \A zx \in SaveScores, zy \in SaveScores :
              LET w == SortedSet_save_value(World, zx, zy)
              IN /\ w.err = NoError /\ w.store.Z = zx /\ w.store.Y = zy
                 /\ SortedSet_save_value(w, zx, zy).store = w.store
                 /\ w.client = "basic" /\ current_transaction(w) = None

\* C22 as stated: add(x) on a set where x has score 1 gives x the score 2,
\* and pop() then returns the member of the lowest score and the set no
\* longer holds that member.
C22_AddThenPopRemoves ==
    (pc = "idle" /\ current_transaction(World) = None /\ store.Z = 1) =>
        LET w1 == SortedSet_add_member(World, "x", 1)
            popped == SortedSet_lowest(w1.store)
            w2 == SortedSet_popitem(w1)
        IN /\ w1.err = NoError /\ w1.store.Z = 2
           /\ w2.err = NoError
           /\ ScoreOf(w2.store, popped) = Absent

\* C22 amended: add(x) on a set where x has score 1 gives x the score 2, and
\* pop() then returns a member no other member scores below, takes 1 off
\* its score, removes it only when nothing is left of the score, and leaves
\* the other member alone.
C22_AddThenPopDecrements ==
    (pc = "idle" /\ current_transaction(World) = None /\ store.Z = 1) =>
        LET w1 == SortedSet_add_member(World, "x", 1)
            popped == SortedSet_lowest(w1.store)
            other == IF popped = "x" THEN "y" ELSE "x"
            before == ScoreOf(w1.store, popped)
            w2 == SortedSet_popitem(w1)
        IN /\ w1.err = NoError /\ w1.store.Z = 2 /\ w1.store.Y = store.Y
           /\ w2.err = NoError
           /\ popped # None /\ before # Absent
           /\ ScoreOf(w1.store, other) # Absent =>
                 before <= ScoreOf(w1.store, other)
           /\ ScoreOf(w2.store, popped) =
                 IF before - 1 <= 0 THEN Absent ELSE before - 1
           /\ ScoreOf(w2.store, other) = ScoreOf(w1.store, other)

\* pop() has returned x and left it in the set with score 1
C22_Witness ==
    /\ zop = "popset"
    /\ current = <<"x">>
    /\ store.Z = 1
    /\ store.Y = 2

\* C23: for a Tuple type of any number of fields and every tuple its encode
\* accepts, decode(encode(v)) = v.
C23_TupleRoundTrip ==
    (zop = "tuple" /\ script = "value") =>
        LET e == Tuple_encode(current[1], current[2])
        IN e.err = NoError =>
              Tuple_decode(current[1], e.value) = [err |-> NoError, value |-> current[2]]

\* C24: loading the key of a stored entity twice in one session returns
\* the same object both times: the instance registered by the first load.
C24_SameObjectTwice ==
    (pc = "idle" /\ current_transaction(World) = None /\ store.H # None) =>
        LET w1 == Map_load_value(World)
            w2 == Map_load_value(w1)
        IN /\ w1.err = NoError
           /\ w2.err = NoError
           /\ w2.identity_map[w2.store.H] = w1.identity_map[w1.store.H]
           /\ w2.identity_map = w1.identity_map

\* C25: once an entity is saved, saving a different object of the same key
\* raises KeyFieldError and leaves the hash and the identity map as they
\* were.
C25_KeyConflictRefused ==
    (pc = "idle" /\ current_transaction(World) = None) =>
        \A first \in Entities, second \in Entities :
            (first.login = second.login /\ first # second) =>
                LET w1 == Map_save_value(World, first)
                    w2 == Map_save_value(w1, second)
                IN /\ w2.err = "KeyFieldError"
                   /\ w2.store = w1.store
                   /\ w2.identity_map = w1.identity_map

\* C26: inside a block, a manipulative mark made before the commit phase
\* issues MULTI once and enters the commit phase, and a manipulative mark
\* made in the commit phase issues no MULTI, leaves the phase as it is and
\* raises nothing; an explicit begin_commit in the commit phase issues no
\* MULTI either.
C26_MultiOnce ==
    (pc = "block" /\ current_transaction(World) # None) =>
        \A ks \in {{}, {"L"}, {"H"}} :
            LET w == Session_mark_manipulative(World, ks)
                b == Transaction_begin_commit(World)
            IN /\ ~txn.commit_phase =>
                     /\ CountOp([i \in 1..Len(w.issued) |-> [op |-> w.issued[i]]],
                                "MULTI") = 1
                     /\ w.txn.commit_phase
               /\ txn.commit_phase =>
                     /\ CountOp([i \in 1..Len(w.issued) |-> [op |-> w.issued[i]]],
                                "MULTI") = 0
                     /\ CountOp([i \in 1..Len(b.issued) |-> [op |-> b.issued[i]]],
                                "MULTI") = 0
                     /\ w.txn.commit_phase
                     /\ w.err = NoError

\* C27: Session.mark_query raises CommitError exactly when the session has
\* a current transaction in commit phase, and then sends nothing and leaves
\* the watch set and the phase as they are; with a current transaction not
\* in commit phase it adds the keys to the watch set, and with no current
\* transaction it does nothing.
C27_MarkQuery ==
    \A ks \in KeyChoices :
        LET w == Session_mark_query(World, ks)
            active == current_transaction(World) # None
        IN /\ (w.err = "CommitError") <=> (active /\ txn.commit_phase)
           /\ (active /\ txn.commit_phase) =>
                 w = Raise(World, "CommitError")
           /\ (active /\ ~txn.commit_phase) =>
                 /\ w.err = NoError
                 /\ w.txn = [txn EXCEPT !.keys = @ \cup ks]
                 /\ ks \subseteq w.conn.watched
           /\ ~active => w = World

\* a read of the hash was refused in commit phase, and the transaction is
\* still current and in commit phase
C27_Witness ==
    /\ pc = "raised"
    /\ exc = "CommitError"
    /\ current_transaction(World) # None
    /\ txn.commit_phase
    /\ "H" \notin txn.keys

\* C28: in a transaction that is not in commit phase, a compound operation
\* of the hash or the sorted set that finds nothing to write leaves the
\* transaction out of commit phase, so that the reads that follow are not
\* refused; one that has something to write completes with its write
\* queued and the transaction in commit phase.
C28_CommitPhaseAtWrite ==
    (Free /\ current_transaction(World) # None /\ ~txn.commit_phase) =>
        \A o \in {"hdel", "hsetdefault", "zdel"} \cup CompoundOps :
            LET w == CASE o = "hdel" -> Hash_delitem(World)
                       [] o = "hsetdefault" -> Hash_setdefault(World, "v")
                       [] o = "zdel" -> SortedSet_delitem(World)
                       [] OTHER -> SortedSet_compound_joined(World, o)
                nothing == CASE o = "hdel" -> store.H = None
                             [] o = "hsetdefault" -> store.H # None
                             [] o = "setdefault" -> store.Z # Absent
                             [] OTHER -> store.Z = Absent
            IN w.err # BoundHit =>
                 IF nothing
                 THEN /\ ~w.txn.commit_phase
                      /\ \A c \in {"H", "Z"} : \A op \in ReadOpsOf(c) :
                             Container_read(w, c, op).err # "CommitError"
                 ELSE /\ w.err = NoError
                      /\ w.txn.commit_phase
                      /\ Len(w.pipe.stack) = Len(pipe.stack) + 1

\* C29: a compound operation of the hash or the sorted set called inside a
\* transaction sends its internal read only with the key of the container
\* in the watch set and watched by the connection: the key was there
\* already, or the operation sent WATCH before the read.
C29_WatchedBeforeRead ==
    (Free /\ current_transaction(World) # None) =>
        \A o \in {"hdel", "hsetdefault", "zdel"} \cup CompoundOps :
            LET w == CASE o = "hdel" -> Hash_delitem(World)
                       [] o = "hsetdefault" -> Hash_setdefault(World, "v")
                       [] o = "zdel" -> SortedSet_delitem(World)
                       [] OTHER -> SortedSet_compound_joined(World, o)
                key == IF o \in {"hdel", "hsetdefault"} THEN "H" ELSE "Z"
                reads == {j \in 1..Len(w.issued) : w.issued[j] = "READ"}
            IN reads # {} =>
                 /\ key \in w.txn.keys
                 /\ key \in w.conn.watched
                 /\ \/ key \in txn.keys
                    \/ \E i \in 1..Len(w.issued) :
                          /\ w.issued[i] = "WATCH"
                          /\ \A j \in reads : i < j

\* C30: once MULTI was sent in an attempt, nothing the block can call sends
\* WATCH: neither a manipulative mark nor a join with ignore_double, whatever
\* keys they name.
C30_NoWatchAfterMulti ==
    (pc = "block" /\ current_transaction(World) # None /\ pipe.explicit) =>
        \A ks \in KeyChoices \cup {{"H"}} :
            LET m == Session_mark_manipulative(World, ks)
            IN /\ \A i \in 1..Len(m.issued) : m.issued[i] # "WATCH"
               /\ \A mode \in {"transaction", "call"} :
                     LET w == OpenWhileActive(World, mode, ks, TRUE)
                     IN \A i \in 1..Len(w.issued) : w.issued[i] # "WATCH"

\* C31: every attempt starts, when its block is invoked, with the watch set
\* equal to the initial keys of the transaction (and the keys given to the
\* call, which Transaction.__call__ watches before the block), watched by
\* the connection, and out of commit phase, whatever the attempt before
\* left in the transaction.
C31_FreshAttempt ==
    [][(pc = "enter" /\ pc' = "block") =>
          /\ txn'.keys = txn'.initial_keys \cup Top.keys
          /\ conn'.watched = txn'.keys
          /\ ~txn'.commit_phase
          /\ ~pipe'.explicit]_vars

\* a retry is about to begin on a Transaction object to which the attempt
\* before added the key of the hash
C31_Witness ==
    /\ pc = "enter"
    /\ conflicts >= 1
    /\ Top.mode = "iter"
    /\ "H" \in txn.keys
    /\ "H" \notin txn.initial_keys

\* C32: inside a block the connection watches exactly the watch set of the
\* transaction, and Transaction.watch, whoever calls it, never shrinks the
\* watch set and passes to WATCH exactly the given keys that are not in it:
\* nothing when there is none, and an accepted WATCH puts them in the watch
\* set, so that no key reaches the backend twice.
C32_WatchOnlyNew ==
    (pc = "block" /\ current_transaction(World) # None) =>
        /\ conn.watched = txn.keys
        /\ \A ks \in SUBSET {"L", "H"} :
              LET w == Transaction_watch(World, ks, FALSE)
                  new == ks \ txn.keys
              IN /\ txn.keys \subseteq w.txn.keys
                 /\ w.watch_args = IF new = {} THEN <<>> ELSE <<new>>
                 /\ w.err = NoError =>
                       /\ w.txn.keys = txn.keys \cup ks
                       /\ w.conn.watched = w.txn.keys
                 /\ \A c \in {0, 1} :
                       LET m == IF c = 0 THEN Session_mark_query(World, ks)
                                ELSE Session_mark_manipulative(World, ks)
                       IN /\ txn.keys \subseteq m.txn.keys
                          /\ \A i \in DOMAIN m.watch_args :
                                m.watch_args[i] = new

\* the block runs with the key of the hash in the watch set, to which a read
\* of the hash added it
C32_Witness ==
    /\ pc = "block"
    /\ current_transaction(World) # None
    /\ "H" \in txn.keys
    /\ "H" \notin txn.initial_keys
    /\ "L" \in txn.initial_keys
    /\ ~txn.commit_phase

\* C33: whenever no thread of control has a transaction active on the
\* session, session.client is the plain client the session was built with;
\* in particular after thread B entered a transaction while the one of
\* thread A was active, and thread A left its block before thread B did.
C33_ClientRestored ==
    (pc = "block" /\ current_transaction(World) # None) =>
        LET b1 == Transaction_enter(
                      [OnThread(World, "B") EXCEPT !.txn = Transaction_init({})])
            a1 == Transaction_exit(
                      [OnThread(b1, "A") EXCEPT !.txn = txn, !.pipe = pipe,
                                                !.conn = conn], NoError)
            b2 == Transaction_exit(
                      [OnThread(a1, "B") EXCEPT !.txn = b1.txn, !.pipe = b1.pipe,
                                                !.conn = b1.conn,
                                                !.err = NoError], NoError)
        IN (\A t \in DOMAIN b2.ctx : b2.ctx[t].transaction = None) =>
              b2.client = "basic"


\* C34: a retrying call starts another attempt after every conflict; an
\* attempt during which no other session modified a watched key does not
\* end with a conflict; and, the other session modifying the list finitely
\* often, every call returns.
C34_RetryUntilCommit ==
    /\ [][conflicts' = conflicts + 1 => pc' = "enter"]_vars
    /\ []((pc = "block" /\ ~stale) =>
             Transaction_exit(World, NoError).err # "ConflictError")
    /\ (script = "enter" ~> pc = "done")


\* C35: when Set.symmetric_difference_update on two Sets of the session
\* commits, the set holds the symmetric difference of the two sets as they
\* were at the moment of the commit, whatever the other session did to
\* either set while the operation ran.
C35_SymmetricDifferenceAtomic ==
    [][(script = "execute" /\ script' = "end") =>
          /\ exc' = NoError
          /\ store'.S = (store.S \ store.T) \cup (store.T \ store.S)]_vars


\* C36: iterating a List yields the stored items in index order, each of
\* them once, and comes to an end, whatever the length of the list.
C36_IterateAll ==
    /\ [](zop = "iterate" =>
             /\ Len(current) <= Len(store.L)
             /\ current = SubSeq(store.L, 1, Len(current))
             /\ script = "end" => current = store.L)
    /\ (zop = "iterate" ~> script = "end")


\* C37: on a server that takes several values per command (2.4) and on one
\* that takes one (2.2), List.extend, Session.set of a list, of a set and
\* of a sorted set, and the removal of elements from a set end alike, in
\* what the container holds and in whether an exception is raised, for
\* every collection given, the empty one too.
C37_PathsAgree ==
    (pc = "idle" /\ current_transaction(World) = None) =>
        LET old == [World EXCEPT !.store.version = "2.2"]
            new == [World EXCEPT !.store.version = "2.4"]
            Same(a, b) ==
                /\ a.err = b.err
                /\ [a.store EXCEPT !.version = "2.2"] =
                      [b.store EXCEPT !.version = "2.2"]
        IN /\ \A vs \in SaveLists :
                 /\ Same(List_extend(old, vs), List_extend(new, vs))
                 /\ Same(List_save_value(old, vs), List_save_value(new, vs))
           /\ \A ms \in SaveSets :
                 /\ Same(Set_save_value(old, ms), Set_save_value(new, ms))
                 /\ Same(fresh_pipeline_execute(old, Set_raw_delete(old, ms)),
                         fresh_pipeline_execute(new, Set_raw_delete(new, ms)))
           /\ \A zx \in SaveScores, zy \in SaveScores :
                 Same(SortedSet_save_value(old, zx, zy),
                      SortedSet_save_value(new, zx, zy))


\* C38: the first access to Session.server_version, in a transaction or
\* not, returns the version of the server, and no later access sends a
\* command.
C38_ServerVersionOnce ==
    LET first == Session_server_version([World EXCEPT !.server_info = None])
        again == Session_server_version([first EXCEPT !.issued = <<>>])
    IN first.err # BoundHit =>
          /\ first.err = NoError
          /\ first.issued = <<"READ">>
          /\ first.value = store.version
          /\ again.err = NoError
          /\ again.issued = <<>>
          /\ again.value = store.version


\* C39: while a block invoked by Session.transaction or by
\* Transaction.__call__ runs, its second argument is the current Transaction
\* of the session, also when the call joined the transaction that was
\* active.
C39_BlockGetsTransaction ==
    (pc = "block" /\ Top.mode \in {"transaction", "call", "joined"}) =>
        Block_transaction(Top) = current_transaction(World)


\* C40: begin_commit() on a transaction that is in commit phase warns and
\* does nothing else: it raises nothing, sends no MULTI, and leaves the
\* queued commands, the watch set and the phase as they are.
C40_BeginCommitTwice ==
    (pc = "block" /\ current_transaction(World) # None /\ txn.commit_phase) =>
        LET w == Transaction_begin_commit(World)
        IN /\ w.err = NoError
           /\ w.issued = <<"WARN">>
           /\ w.pipe = pipe
           /\ w.conn = conn
           /\ w.txn = txn
           /\ w.store = store
           /\ w.client = client

\* a transaction that watches the list, has sent MULTI and has queued a
\* command
C40_Witness ==
    /\ pc = "block"
    /\ current_transaction(World) # None
    /\ txn.commit_phase
    /\ pipe.explicit
    /\ pipe.stack # <<>>
    /\ txn.keys # {}


----------------------------------------------------------------------------
TypeOK ==
    /\ pc \in {"idle", "enter", "block", "raised", "done"}
    /\ client \in {"basic", "pipe"}
    /\ Len(frames) <= MaxDepth
    /\ Len(pipe.stack) <= MaxQueue

====
